---- MODULE Spec2Model ----
(***************************************************************************)
(* git-de: export of the files changed between two commits.                *)
(*                                                                         *)
(* Two state machines over one set of variables:                           *)
(*   SpecFilter  the loop of Exporter.filterAndProcess over a change list  *)
(*   Spec        one run of Exporter.ExportFiles: dispatch, sink           *)
(*               preparation, sequential / concurrent copy, archive        *)
(*               export, summary.txt and errors.txt                        *)
(* Strings that are inspected character by character (paths, glob          *)
(* patterns) are tuples of one-character strings.                          *)
(***************************************************************************)
EXTENDS Integers, Sequences, FiniteSets, TLC

VARIABLES
    \* ---- filterAndProcess ----
    changes,      \* the change list handed to filterAndProcess
    fopts,        \* Options read by the filter: IncludePatterns, IgnorePatterns, MaxSize
    fi,           \* number of changes the range loop has consumed
    result,       \* var result []git.FileChange
    jsonFiles,    \* var jsonFiles []JSONFile (reason of every change)
    provider,     \* what the GitExporter answers for each path
    calls,        \* provider calls made for each consumed change
    previous,     \* what earlier calls of filterAndProcess on this change list returned
    \* ---- ExportFiles ----
    opts,         \* Options read by the run: Preview, ArchivePath, Concurrent, Overwrite
    nfiles,       \* len(filesToCopy); the files of the export set are 1..nfiles
    root0,        \* the output path before the run: kind and entries
    root,         \* the output path now: kind ("absent", "file", "dir") and entries
    prep,         \* how PrepareOutputDir returned: "none" (not yet), "ok", "err", "ioerr"
    pc,           \* where the calling goroutine is
    ret,          \* what ExportFiles returned: "none" (running), "nil", "err"
    idx,          \* files consumed by the sequential / archive range loop
    successCount,
    failedCount,
    errors,       \* Exporter.errors
    copies,       \* how many times CopyFile / the archive fetch was started for each file
    archive,      \* the archive file: whether it was created, and its entries in order
    inWriter,     \* goroutines inside a call on the archive writer
    fileCh,       \* the buffered channel of copyConcurrent
    closed,       \* close(fileCh) has run
    sent,         \* files the producer goroutine has enqueued
    wpc,          \* where each worker goroutine is
    wfile,        \* the file a worker received
    notified,     \* signal.Notify(signalCh, SIGINT, SIGTERM) has run
    signalCh,     \* signals buffered in signalCh (capacity 1)
    signals,      \* signals delivered to the process so far
    observed,     \* signals received from signalCh by a worker
    failures,     \* files whose CopyFile / archive content fetch returned an error
    progress,     \* calls of printProgress so far
    errorsTxt,    \* errors.txt: whether it was written, and its text
    \* ---- Export, manifest.Generate ----
    repo,         \* what the git client answers to validate and GetChangedFiles
    clientCalls,  \* the calls Export and validate have made on the client, in order
    manifest,     \* the string returned by manifest.Generate, once it was called
    \* ---- cli.Parse, cli.ParseSize, main ----
    args,         \* the command line: the flags given and the terminal
    config,       \* what Parse returned: the error and the Config
    cpc,          \* where main is
    sizeIn,       \* the string given to ParseSize
    sizeOut,      \* what ParseSize returned, once it was called
    \* ---- the TUI ----
    targs,        \* what tui.Run is given: the revisions, and what the client answers
    m,            \* the Model of the TUI
    cmds,         \* the commands Update has returned that have not delivered their message
    selectedFiles, \* the export set startExport built, once it has run
    transfer      \* the goroutines of the TUI's export, their channels and counters

fvars == <<changes, fopts, fi, result, jsonFiles, provider, calls, previous>>

evars == <<opts, nfiles, root0, root, prep, pc, ret, idx, successCount, failedCount, errors,
           copies, archive, inWriter, fileCh, closed, sent, wpc, wfile, notified,
           signalCh, signals, observed, failures, progress, errorsTxt>>

xvars == <<repo, clientCalls, manifest>>

cvars == <<args, config, cpc, sizeIn, sizeOut>>

tvars == <<targs, m, cmds, selectedFiles, transfer>>

uvars == <<cvars, tvars>>

vars == <<fvars, evars, xvars, uvars>>

(***************************************************************************)
(* Bounds of the model                                                     *)
(***************************************************************************)
MaxLen == 3
SizeLimit == 2
MaxFiles == 2
MaxSignals == 1

(***************************************************************************)
(* Program constants                                                       *)
(***************************************************************************)
bufferSize == 20
numWorkers == 5
\* make(chan os.Signal, 1)
signalBuffer == 1

(***************************************************************************)
(* git.FileStatus and git.FileChange                                       *)
(***************************************************************************)
StatusAdded == "A"
StatusModified == "M"
StatusDeleted == "D"
StatusRenamed == "R"
StatusCopied == "C"
\* parseLine keeps the first character of whatever git prints; "T" (type
\* change) stands for every status that is none of the five constants.
StatusOther == "T"

Statuses == {StatusAdded, StatusModified, StatusDeleted, StatusRenamed, StatusCopied, StatusOther}

PathA == <<"a">>
PathDA == <<"d", "/", "a">>
PathOld == <<"o">>
Paths == {PathA, PathDA}

FileChange(status, path) ==
    [Status |-> status, Path |-> path,
     OldPath |-> IF status \in {StatusRenamed, StatusCopied} THEN PathOld ELSE <<>>]

FileChanges == {FileChange(s, p) : s \in Statuses, p \in Paths}

ShouldCopy(fc) ==
    \/ fc.Status = StatusAdded
    \/ fc.Status = StatusModified
    \/ fc.Status = StatusRenamed
    \/ fc.Status = StatusCopied

(***************************************************************************)
(* filepath.Base and filepath.Match on slash-separated names               *)
(***************************************************************************)
Separator == "/"

RECURSIVE Base(_)
Base(path) ==
    IF path = <<>> THEN <<".">>
    ELSE IF \A i \in 1..Len(path) : path[i] # Separator THEN path
    ELSE Base(Tail(path))

\* '*' matches any sequence of non-separator characters, '?' one
\* non-separator character, any other character itself; the whole name
\* has to be matched.
RECURSIVE Match(_, _)
Match(pattern, name) ==
    IF pattern = <<>> THEN name = <<>>
    ELSE IF Head(pattern) = "*"
        THEN \/ Match(Tail(pattern), name)
             \/ /\ name # <<>>
                /\ Head(name) # Separator
                /\ Match(pattern, Tail(name))
    ELSE IF Head(pattern) = "?"
        THEN /\ name # <<>>
             /\ Head(name) # Separator
             /\ Match(Tail(pattern), Tail(name))
    ELSE /\ name # <<>>
         /\ Head(name) = Head(pattern)
         /\ Match(Tail(pattern), Tail(name))

MatchesAny(patterns, path) ==
    \E k \in 1..Len(patterns) :
        \/ Match(patterns[k], path)
        \/ Match(patterns[k], Base(path))

shouldIgnore(path) == MatchesAny(fopts.IgnorePatterns, path)

shouldInclude(path) == MatchesAny(fopts.IncludePatterns, path)

(***************************************************************************)
(* Inputs of the filter                                                    *)
(***************************************************************************)
PatQ == <<"?">>
PatB == <<"b">>
PatDirStar == <<"d", "/", "*">>
PatternLists == {<<>>, <<PatQ>>, <<PatB, PatDirStar>>}

\* MaxSize: 0 (unlimited) or a limit that content lengths 1..MaxLen
\* fall below, on and above.
MaxSizes == {0, SizeLimit}

\* What GetFileContent answers: an error, or content of some length.
Contents == {[err |-> TRUE, len |-> 0]} \cup {[err |-> FALSE, len |-> n] : n \in 1..MaxLen}

\* A diff names every path once: the change lists are the lists of changes
\* with pairwise different paths.
ChangeLists ==
    {cs \in UNION {[1..n -> FileChanges] : n \in 0..Cardinality(Paths)} :
        \A i, j \in DOMAIN cs : i # j => cs[i].Path # cs[j].Path}

NoAnswer == [outside |-> FALSE, content |-> [err |-> TRUE, len |-> 0]]

\* IsFileOutsideRepo and GetFileContent of the GitExporter.
IsFileOutsideRepo(path) == provider[path].outside

GetFileContentOnce(path) ==
    IF previous = <<>> THEN provider[path].content ELSE [err |-> TRUE, len |-> 0]

GetFileContent(path) == provider[path].content

(***************************************************************************)
(* manifest.Generate.  Strings are tuples of characters; Ascii lists the   *)
(* characters that occur, in the order of their byte values, which is the  *)
(* order sort.Strings compares by.                                         *)
(***************************************************************************)
Ascii == <<"\n", " ", "(", ")", "-", ".", "/", ":",
           "a", "b", "d", "e", "f", "i", "l", "m", "n", "o", "p", "r", "s", "t", "u", "v", "w", "y">>

Ord(ch) == CHOOSE i \in 1..Len(Ascii) : Ascii[i] = ch

\* a < b for strings: bytewise, a proper prefix first.
RECURSIVE Less(_, _)
Less(a, b) ==
    IF b = <<>> THEN FALSE
    ELSE IF a = <<>> THEN TRUE
    ELSE IF Head(a) = Head(b) THEN Less(Tail(a), Tail(b))
    ELSE Ord(Head(a)) < Ord(Head(b))

RECURSIVE Insert(_, _)
Insert(x, sorted) ==
    IF sorted = <<>> THEN <<x>>
    ELSE IF Less(Head(sorted), x) THEN <<Head(sorted)>> \o Insert(x, Tail(sorted))
    ELSE <<x>> \o sorted

sortStringsNot(list) == list

\* sort.Strings: the strings of the list in ascending order.
RECURSIVE sortStrings(_)
sortStrings(list) ==
    IF list = <<>> THEN <<>> ELSE Insert(Head(list), sortStrings(Tail(list)))

HeaderNew == <<"n", "e", "w", " ", "f", "i", "l", "e", "s", ":">>
HeaderModified == <<"m", "o", "d", "i", "f", "i", "e", "d", ":">>
HeaderRenamed == <<"r", "e", "n", "a", "m", "e", "d", ":">>
HeaderDeleted == <<"d", "e", "l", "e", "t", "e", "d", ":">>

\* fmt.Sprintf("%s (previously %s)", change.Path, change.OldPath)
Previously(c) ==
    c.Path \o <<" ", "(", "p", "r", "e", "v", "i", "o", "u", "s", "l", "y", " ">> \o c.OldPath \o <<")">>

\* The switch on change.Status: the strings appended to the list of one
\* status, in the order of the changes.  A status without a case appends
\* nothing.
RECURSIVE Collect(_, _)
Collect(cs, status) ==
    IF cs = <<>> THEN <<>>
    ELSE LET c == Head(cs)
             rest == Collect(Tail(cs), status)
         IN IF c.Status # status THEN rest
            ELSE IF status = "R" THEN <<Previously(c)>> \o rest
            ELSE <<c.Path>> \o rest

\* fmt.Sprintf("- %s\n", f) for every f of the list.
RECURSIVE Entries(_)
Entries(list) ==
    IF list = <<>> THEN <<>>
    ELSE <<"-", " ">> \o Head(list) \o <<"\n">> \o Entries(Tail(list))

\* if len(list) > 0 { header, then the entries }
Section(header, list) ==
    IF Len(list) > 0 THEN header \o <<"\n">> \o Entries(list) ELSE <<>>

\* strings.TrimSuffix(s, "\n")
TrimSuffix(str) ==
    IF str # <<>> /\ str[Len(str)] = "\n" THEN SubSeq(str, 1, Len(str) - 1) ELSE str

Generate(cs) ==
    LET newFiles == sortStrings(Collect(cs, "A"))
        modified == sortStrings(Collect(cs, "M"))
        renamed == sortStrings(Collect(cs, "R"))
        deleted == sortStrings(Collect(cs, "D"))
    IN TrimSuffix(Section(HeaderNew, newFiles) \o Section(HeaderModified, modified)
                  \o Section(HeaderRenamed, renamed) \o Section(HeaderDeleted, deleted))

\* summary := manifest.Generate(allChanges)
Generated(cs) == [generated |-> TRUE, text |-> Generate(cs)]

PathAB == <<"a", "b">>

\* Paths of which one is a prefix of another and one lies in a directory.
ManifestPaths == {PathA, PathAB, PathDA}

ManifestChangeLists ==
    {cs \in UNION {[1..n -> {FileChange(st, p) : st \in Statuses, p \in ManifestPaths}] :
                        n \in 0..Cardinality(ManifestPaths)} :
        \A i, j \in DOMAIN cs : i # j => cs[i].Path # cs[j].Path}

(***************************************************************************)
(* The run of ExportFiles: values of its state                             *)
(***************************************************************************)
Workers == 1..numWorkers

Files == 1..nfiles

PathSummary == <<"s", "u", "m", "m", "a", "r", "y", ".", "t", "x", "t">>

\* The name of an exported file in the sink: filepath.Join(OutputDir, Path),
\* respectively the archive entry Path.  Distinct paths have distinct names;
\* the path "summary.txt" has the name of the manifest file.
Name(f) ==
    IF f \in DOMAIN result /\ result[f].Path = PathSummary THEN "summary.txt"
    ELSE ToString(f)

\* What an entry of the output directory holds: the content the provider
\* returned for file f, the manifest, the error report, or what was there
\* before the run.
FileContent(f) == [of |-> "file", file |-> f]
ManifestContent == [of |-> "summary", file |-> 0]
ErrorsContent == [of |-> "errors", file |-> 0]
OldContent == [of |-> "old", file |-> 0]

\* os.WriteFile(name, content): the entry is created or replaced.
WriteFile(r, name, content) ==
    [r EXCEPT !.entries = @ \cup {name},
              !.content = [n \in DOMAIN @ \cup {name} |-> IF n = name THEN content ELSE @[n]]]

Dir(kind, entries) == [kind |-> kind, entries |-> entries, content |-> [n \in entries |-> OldContent]]

ArchZIP == <<"e", ".", "Z", "I", "P">>
ArchTar == <<"e", ".", "t", "a", "r">>
ArchTgz == <<"e", ".", "t", "g", "z">>
ArchTarGz == <<"e", ".", "t", "a", "r", ".", "g", "z">>
ArchivePaths == {<<>>, ArchZIP, ArchTar, ArchTgz, ArchTarGz}

Roots ==
    {Dir("absent", {}), Dir("file", {}), Dir("dir", {}), Dir("dir", {"old.txt"})}

NotWritten == [written |-> FALSE, text |-> <<>>]

NotGenerated == [generated |-> FALSE, text |-> <<>>]

NoRepo == [IsGitRepository |-> TRUE, HasCommits |-> TRUE, FromCommit |-> TRUE,
           ToCommit |-> TRUE, GetChangedFiles |-> [err |-> FALSE, changes |-> <<>>]]

\* The run has not started: the value of its variables while the filter runs.
EIdle ==
    /\ opts = [Preview |-> FALSE, ArchivePath |-> <<>>, Concurrent |-> FALSE, Overwrite |-> FALSE]
    /\ nfiles = 0
    /\ root0 = Dir("absent", {})
    /\ root = root0
    /\ prep = "none"
    /\ pc = "idle"
    /\ ret = "none"
    /\ idx = 0
    /\ successCount = 0
    /\ failedCount = 0
    /\ errors = <<>>
    /\ copies = <<>>
    /\ archive = [created |-> FALSE, format |-> "none", entries |-> <<>>]
    /\ inWriter = {}
    /\ fileCh = <<>>
    /\ closed = FALSE
    /\ sent = 0
    /\ wpc = [w \in Workers |-> "idle"]
    /\ wfile = [w \in Workers |-> 0]
    /\ notified = FALSE
    /\ signalCh = 0
    /\ signals = 0
    /\ observed = 0
    /\ failures = {}
    /\ progress = 0
    /\ errorsTxt = NotWritten

\* Export was not called and Generate has not run.
XIdle ==
    /\ repo = NoRepo
    /\ clientCalls = <<>>
    /\ manifest = NotGenerated

NoArgs == [from |-> FALSE, output |-> <<>>, archive |-> <<>>, maxSize |-> <<>>,
           concurrent |-> FALSE, noTUI |-> FALSE, tty |-> FALSE]

NoConfig == [err |-> "none", OutputDir |-> <<>>, ArchivePath |-> <<>>, Preview |-> FALSE,
             MaxSize |-> 0]

NotParsed == [called |-> FALSE, err |-> "none", value |-> <<>>]

\* Parse, ParseSize and main were not called.
CIdle ==
    /\ args = NoArgs
    /\ config = NoConfig
    /\ cpc = "idle"
    /\ sizeIn = <<>>
    /\ sizeOut = NotParsed

NoTuiArgs == [from |-> <<>>, to |-> <<>>, branch |-> <<>>, branchErr |-> FALSE, gitErr |-> FALSE,
              parent |-> FALSE, checkout |-> FALSE, changes |-> <<>>]

NoModel ==
    [state |-> "none", err |-> FALSE, fromCommit |-> <<>>, toCommit |-> <<>>, outputPath |-> <<>>,
     list |-> "none", files |-> <<>>, filteredIdx |-> <<>>, filteredNil |-> TRUE,
     cursor |-> 0, inputMode |-> FALSE, filterInput |-> <<>>, inclusiveMode |-> FALSE,
     outputInputFocused |-> FALSE, selectedBranch |-> <<>>, totalFiles |-> 0,
     successCount |-> 0, failedCount |-> 0]

NotStarted == [started |-> FALSE, files |-> <<>>]

\* A progressMsg without its file name.
progressMsg(success, failed) == [successCount |-> success, failedCount |-> failed]

\* No export goroutine was started.  mode: which of exportSequential and
\* exportConcurrent runs; gpc: where the goroutine of exportSequential,
\* respectively the producer goroutine of exportConcurrent, is; done: files
\* the sequential loop has finished; unsent, queued: files the producer has
\* still to send, files in fileCh; wpc, wmsg: where each worker is, and the
\* progressMsg it is building; successCount, failedCount: the counters.
NoTransfer ==
    [mode |-> "none", total |-> 0, gpc |-> "none", done |-> 0, unsent |-> 0, queued |-> 0,
     fileClosed |-> FALSE, successCount |-> 0, failedCount |-> 0,
     wpc |-> [w \in 1..numWorkers |-> "none"],
     wmsg |-> [w \in 1..numWorkers |-> progressMsg(0, 0)],
     progressClosed |-> FALSE, errorsTxt |-> FALSE]

\* tui.Run was not called.
TIdle ==
    /\ targs = NoTuiArgs
    /\ m = NoModel
    /\ cmds = {}
    /\ selectedFiles = NotStarted
    /\ transfer = NoTransfer

UIdle == CIdle /\ TIdle

(***************************************************************************)
(* One iteration of the range loop of filterAndProcess, as the chain of   *)
(* `continue`s of the code.  Reason is JSONFile.Reason ("" for a file that *)
(* is appended to result); asked and probed say whether the iteration      *)
(* called IsFileOutsideRepo and GetFileContent.                            *)
(***************************************************************************)
Verdict(reason, asked, probed) == [Reason |-> reason, asked |-> asked, probed |-> probed]

classifyNoStatusRule(c) ==
    IF Len(fopts.IncludePatterns) > 0 /\ ~shouldInclude(c.Path)
        THEN Verdict("not included", FALSE, FALSE)
    ELSE IF shouldIgnore(c.Path)
        THEN Verdict("ignored", FALSE, FALSE)
    ELSE IF IsFileOutsideRepo(c.Path)
        THEN Verdict("outside repo", TRUE, FALSE)
    ELSE IF fopts.MaxSize > 0
        THEN IF ~GetFileContent(c.Path).err /\ GetFileContent(c.Path).len > fopts.MaxSize
                THEN Verdict("too large", TRUE, TRUE)
                ELSE Verdict("", TRUE, TRUE)
    ELSE Verdict("", TRUE, FALSE)

classifyIncludeLast(c) ==
    IF c.Status = StatusDeleted
        THEN Verdict("deleted", FALSE, FALSE)
    ELSE IF ~ShouldCopy(c)
        THEN Verdict("not copyable", FALSE, FALSE)
    ELSE IF shouldIgnore(c.Path) /\ ~(Len(fopts.IncludePatterns) > 0 /\ shouldInclude(c.Path))
        THEN Verdict("ignored", FALSE, FALSE)
    ELSE IF Len(fopts.IncludePatterns) > 0 /\ ~shouldInclude(c.Path)
        THEN Verdict("not included", FALSE, FALSE)
    ELSE IF IsFileOutsideRepo(c.Path)
        THEN Verdict("outside repo", TRUE, FALSE)
    ELSE IF fopts.MaxSize > 0
        THEN IF ~GetFileContent(c.Path).err /\ GetFileContent(c.Path).len > fopts.MaxSize
                THEN Verdict("too large", TRUE, TRUE)
                ELSE Verdict("", TRUE, TRUE)
    ELSE Verdict("", TRUE, FALSE)

classifySizeFirst(c) ==
    IF c.Status = StatusDeleted
        THEN Verdict("deleted", FALSE, FALSE)
    ELSE IF ~ShouldCopy(c)
        THEN Verdict("not copyable", FALSE, FALSE)
    ELSE IF fopts.MaxSize > 0 /\ ~GetFileContent(c.Path).err /\ GetFileContent(c.Path).len > fopts.MaxSize
        THEN Verdict("too large", FALSE, TRUE)
    ELSE IF Len(fopts.IncludePatterns) > 0 /\ ~shouldInclude(c.Path)
        THEN Verdict("not included", FALSE, fopts.MaxSize > 0)
    ELSE IF shouldIgnore(c.Path)
        THEN Verdict("ignored", FALSE, fopts.MaxSize > 0)
    ELSE IF IsFileOutsideRepo(c.Path)
        THEN Verdict("outside repo", TRUE, fopts.MaxSize > 0)
    ELSE Verdict("", TRUE, fopts.MaxSize > 0)

classifySizeInclusive(c) ==
    IF c.Status = StatusDeleted
        THEN Verdict("deleted", FALSE, FALSE)
    ELSE IF ~ShouldCopy(c)
        THEN Verdict("not copyable", FALSE, FALSE)
    ELSE IF Len(fopts.IncludePatterns) > 0 /\ ~shouldInclude(c.Path)
        THEN Verdict("not included", FALSE, FALSE)
    ELSE IF shouldIgnore(c.Path)
        THEN Verdict("ignored", FALSE, FALSE)
    ELSE IF IsFileOutsideRepo(c.Path)
        THEN Verdict("outside repo", TRUE, FALSE)
    ELSE IF fopts.MaxSize > 0
        THEN IF ~GetFileContent(c.Path).err /\ GetFileContent(c.Path).len >= fopts.MaxSize
                THEN Verdict("too large", TRUE, TRUE)
                ELSE Verdict("", TRUE, TRUE)
    ELSE Verdict("", TRUE, FALSE)

classifyUnreadableSkipped(c) ==
    IF c.Status = StatusDeleted
        THEN Verdict("deleted", FALSE, FALSE)
    ELSE IF ~ShouldCopy(c)
        THEN Verdict("not copyable", FALSE, FALSE)
    ELSE IF Len(fopts.IncludePatterns) > 0 /\ ~shouldInclude(c.Path)
        THEN Verdict("not included", FALSE, FALSE)
    ELSE IF shouldIgnore(c.Path)
        THEN Verdict("ignored", FALSE, FALSE)
    ELSE IF IsFileOutsideRepo(c.Path)
        THEN Verdict("outside repo", TRUE, FALSE)
    ELSE IF fopts.MaxSize > 0
        THEN IF GetFileContent(c.Path).err \/ GetFileContent(c.Path).len > fopts.MaxSize
                THEN Verdict("too large", TRUE, TRUE)
                ELSE Verdict("", TRUE, TRUE)
    ELSE Verdict("", TRUE, FALSE)

classify(c) ==
    IF c.Status = StatusDeleted
        THEN Verdict("deleted", FALSE, FALSE)
    ELSE IF ~ShouldCopy(c)
        THEN Verdict("not copyable", FALSE, FALSE)
    ELSE IF Len(fopts.IncludePatterns) > 0 /\ ~shouldInclude(c.Path)
        THEN Verdict("not included", FALSE, FALSE)
    ELSE IF shouldIgnore(c.Path)
        THEN Verdict("ignored", FALSE, FALSE)
    ELSE IF IsFileOutsideRepo(c.Path)
        THEN Verdict("outside repo", TRUE, FALSE)
    ELSE IF fopts.MaxSize > 0
        THEN IF ~GetFileContent(c.Path).err /\ GetFileContent(c.Path).len > fopts.MaxSize
                THEN Verdict("too large", TRUE, TRUE)
                ELSE Verdict("", TRUE, TRUE)
    ELSE Verdict("", TRUE, FALSE)

JSONFile(c, reason) ==
    [Path |-> c.Path, Status |-> c.Status, OldPath |-> c.OldPath,
     Exported |-> (reason = ""), Reason |-> reason]

filterAndProcess ==
    /\ fi < Len(changes)
    /\ LET c == changes[fi + 1]
           v == classify(c)
       IN /\ jsonFiles' = Append(jsonFiles, JSONFile(c, v.Reason))
          /\ result' = IF v.Reason = "" THEN Append(result, c) ELSE result
          /\ calls' = Append(calls, [asked |-> v.asked, probed |-> v.probed])
    /\ fi' = fi + 1
    /\ UNCHANGED <<changes, fopts, provider, previous>>
    /\ UNCHANGED <<evars, xvars, uvars>>

InitFilter ==
    /\ EIdle
    /\ XIdle
    /\ UIdle
    /\ changes \in ChangeLists
    /\ fopts \in [IncludePatterns : PatternLists, IgnorePatterns : PatternLists, MaxSize : MaxSizes]
    /\ provider \in [Paths -> [outside : BOOLEAN, content : Contents]]
    /\ \A p \in Paths : (\A i \in DOMAIN changes : changes[i].Path # p) => provider[p] = NoAnswer
    /\ fi = 0
    /\ result = <<>>
    /\ jsonFiles = <<>>
    /\ calls = <<>>
    /\ previous = <<>>

\* filterAndProcess returns result; the caller calls it once more on the
\* same change list.
filterAgain ==
    /\ pc = "idle"
    /\ fi = Len(changes)
    /\ previous = <<>>
    /\ previous' = <<[result |-> result, jsonFiles |-> jsonFiles]>>
    /\ fi' = 0
    /\ result' = <<>>
    /\ jsonFiles' = <<>>
    /\ calls' = <<>>
    /\ UNCHANGED <<changes, fopts, provider, evars, xvars, uvars>>

NextFilter ==
    \/ filterAndProcess
    \/ filterAgain

SpecFilter == InitFilter /\ [][NextFilter]_vars

(***************************************************************************)
(* Claims about filterAndProcess (checked under SpecFilter)                *)
(***************************************************************************)
Consumed == 1..fi

InResult(c) == \E k \in 1..Len(result) : result[k] = c

FilterDone == fi = Len(changes)

\* C1: whatever the change list and the filter options, no change whose
\* status is Deleted is in the export set built by filterAndProcess.
C1_DeletedNeverExported ==
    \A k \in 1..Len(result) : result[k].Status # StatusDeleted

C1_Witness ==
    /\ FilterDone
    /\ \E i \in Consumed : changes[i].Status = StatusDeleted
    /\ \E i \in Consumed : changes[i].Status # StatusDeleted /\ InResult(changes[i])

MatchesIncludeAndIgnore(c) ==
    /\ MatchesAny(fopts.IncludePatterns, c.Path)
    /\ MatchesAny(fopts.IgnorePatterns, c.Path)

\* C2 as stated: every change that is not Deleted and whose path matches an
\* include pattern and an ignore pattern is classified as ignored and is
\* not in the export set.
C2_Original ==
    \A i \in Consumed :
        (changes[i].Status # StatusDeleted /\ MatchesIncludeAndIgnore(changes[i]))
            => (jsonFiles[i].Reason = "ignored" /\ ~InResult(changes[i]))

\* C2 amended: every change with a copyable status (A, M, R, C) whose path
\* matches an include pattern and an ignore pattern is classified as
\* ignored and is not in the export set; with any other status it is not
\* in the export set either.
C2_IgnoreOverridesInclude ==
    \A i \in Consumed :
        MatchesIncludeAndIgnore(changes[i])
            => /\ ~InResult(changes[i])
               /\ changes[i].Status \in {StatusAdded, StatusModified, StatusRenamed, StatusCopied}
                    => jsonFiles[i].Reason = "ignored"

C2_Witness ==
    /\ FilterDone
    /\ \E i \in Consumed :
        /\ changes[i].Status = StatusRenamed
        /\ Match(PatDirStar, changes[i].Path)
        /\ Match(PatQ, Base(changes[i].Path))
        /\ MatchesIncludeAndIgnore(changes[i])
        /\ jsonFiles[i].Reason = "ignored"

\* The rule list of C3: the disposition of a change is that of the first
\* rule that applies.  A content fetch that fails gives no length.
HasLength(c) == ~provider[c.Path].content.err

Length(c) == provider[c.Path].content.len

RuleDisposition(c) ==
    IF c.Status = StatusDeleted THEN "deleted"
    ELSE IF c.Status \notin {StatusAdded, StatusModified, StatusRenamed, StatusCopied} THEN "not copyable"
    ELSE IF fopts.IncludePatterns # <<>> /\ ~MatchesAny(fopts.IncludePatterns, c.Path) THEN "not included"
    ELSE IF MatchesAny(fopts.IgnorePatterns, c.Path) THEN "ignored"
    ELSE IF provider[c.Path].outside THEN "outside repo"
    ELSE IF fopts.MaxSize > 0 /\ HasLength(c) /\ Length(c) > fopts.MaxSize THEN "too large"
    ELSE ""

WillExport(c) == RuleDisposition(c) = ""

PassedOtherChecks(c) ==
    /\ c.Status \in {StatusAdded, StatusModified, StatusRenamed, StatusCopied}
    /\ fopts.IncludePatterns = <<>> \/ MatchesAny(fopts.IncludePatterns, c.Path)
    /\ ~MatchesAny(fopts.IgnorePatterns, c.Path)
    /\ ~provider[c.Path].outside

\* C4: a change that passed the status, include, ignore and outside-root
\* checks is skipped for size iff MaxSize > 0 and its content length is
\* strictly greater than MaxSize, and is exported otherwise; so with
\* MaxSize = 0 nothing is skipped for size, and a file of exactly MaxSize
\* bytes is exported.
C4_SizeLimit ==
    /\ \A i \in Consumed :
        PassedOtherChecks(changes[i]) =>
            /\ jsonFiles[i].Reason = "too large"
                <=> (fopts.MaxSize > 0 /\ HasLength(changes[i]) /\ Length(changes[i]) > fopts.MaxSize)
            /\ jsonFiles[i].Reason # "too large" => InResult(changes[i])
            /\ (HasLength(changes[i]) /\ Length(changes[i]) = fopts.MaxSize) => InResult(changes[i])
    /\ fopts.MaxSize = 0 => \A i \in Consumed : jsonFiles[i].Reason # "too large"

C4_Witness ==
    /\ FilterDone
    /\ Len(changes) = 2
    /\ fopts.MaxSize > 0
    /\ HasLength(changes[1]) /\ Length(changes[1]) = fopts.MaxSize
    /\ HasLength(changes[2]) /\ Length(changes[2]) = fopts.MaxSize + 1
    /\ result = <<changes[1]>>
    /\ jsonFiles[2].Reason = "too large"

(***************************************************************************)
(* ExportFiles: dispatch                                                   *)
(***************************************************************************)
LowerChar(ch) ==
    CASE ch = "Z" -> "z"
      [] ch = "I" -> "i"
      [] ch = "P" -> "p"
      [] ch = "T" -> "t"
      [] ch = "A" -> "a"
      [] ch = "R" -> "r"
      [] ch = "G" -> "g"
      [] ch = "D" -> "d"
      [] ch = "M" -> "m"
      [] ch = "C" -> "c"
      [] OTHER -> ch

ToLower(str) == [i \in DOMAIN str |-> LowerChar(str[i])]

HasSuffix(str, suffix) ==
    /\ Len(str) >= Len(suffix)
    /\ SubSeq(str, Len(str) - Len(suffix) + 1, Len(str)) = suffix

\* runArchiveExport and exportToTarGz: the format written for an archive path.
ArchiveFormat(path) ==
    IF HasSuffix(ToLower(path), <<".", "z", "i", "p">>) THEN "zip"
    ELSE IF \/ HasSuffix(ToLower(path), <<".", "t", "a", "r", ".", "g", "z">>)
            \/ HasSuffix(ToLower(path), <<".", "t", "g", "z">>)
        THEN "tar.gz"
    ELSE "tar"

DispatchConcurrentFirst(o) ==
    IF o.Preview THEN "preview"
    ELSE IF o.Concurrent THEN "prepare"
    ELSE IF o.ArchivePath # <<>> THEN "archiveCreate"
    ELSE "prepare"

\* The branch ExportFiles takes, as the position the caller continues at.
Dispatch(o) ==
    IF o.Preview THEN "preview"
    ELSE IF o.ArchivePath # <<>> THEN "archiveCreate"
    ELSE "prepare"

Running == ret = "none" /\ pc # "killed"

Return(value) ==
    /\ ret' = value
    /\ pc' = "returned"

ExportFiles ==
    /\ Running
    /\ pc = "ExportFiles"
    /\ pc' = Dispatch(opts)
    /\ UNCHANGED <<uvars, xvars, fvars, progress, errorsTxt, opts, nfiles, root0, root, prep, ret, idx, successCount, failedCount,
                   errors, copies, archive, inWriter, fileCh, closed, sent, wpc, wfile,
                   notified, signalCh, signals, observed, failures>>

runPreview ==
    /\ Running
    /\ pc = "preview"
    /\ Return("nil")
    /\ UNCHANGED <<uvars, xvars, fvars, progress, errorsTxt, opts, nfiles, root0, root, prep, idx, successCount, failedCount,
                   errors, copies, archive, inWriter, fileCh, closed, sent, wpc, wfile,
                   notified, signalCh, signals, observed, failures>>

(***************************************************************************)
(* PrepareOutputDir.  io says which of the filesystem calls fail: stat     *)
(* (with an error other than "does not exist"), RemoveAll (leaving the     *)
(* entries `left` behind), MkdirAll.                                       *)
(***************************************************************************)
IOs(r) == [stat : BOOLEAN, remove : BOOLEAN, mkdir : BOOLEAN, left : SUBSET r.entries]

Prepared(how, r) == [how |-> how, root |-> r]

EmptyDir == Dir("dir", {})

Absent == Dir("absent", {})

MkdirAll(io) == IF io.mkdir THEN Prepared("ioerr", Absent) ELSE Prepared("ok", EmptyDir)

PrepareOutputDirNoOverwriteCheck(r, overwrite, io) ==
    IF r.kind # "absent" /\ ~io.stat
        THEN IF r.kind # "dir" THEN Prepared("err", r)
             ELSE IF io.remove THEN Prepared("ioerr", Dir("dir", io.left))
             ELSE MkdirAll(io)
    ELSE IF io.stat THEN Prepared("ioerr", r)
    ELSE MkdirAll(io)

PrepareOutputDir(r, overwrite, io) ==
    IF r.kind # "absent" /\ ~io.stat
        THEN IF r.kind # "dir" THEN Prepared("err", r)
             ELSE IF ~overwrite THEN Prepared("err", r)
             ELSE IF io.remove THEN Prepared("ioerr", Dir("dir", io.left))
             ELSE MkdirAll(io)
    ELSE IF io.stat THEN Prepared("ioerr", r)
    ELSE MkdirAll(io)

\* runExport up to the choice between copyConcurrent and copySequential.
runExport ==
    /\ Running
    /\ pc = "prepare"
    /\ \E io \in IOs(root) :
        LET p == PrepareOutputDir(root, opts.Overwrite, io)
        IN /\ prep' = p.how
           /\ root' = p.root
           /\ IF p.how = "ok"
                THEN /\ pc' = IF opts.Concurrent THEN "copyConcurrent" ELSE "copySequential"
                     /\ ret' = ret
                     /\ progress' = progress + 1
                ELSE /\ Return("err")
                     /\ progress' = progress
    /\ UNCHANGED <<uvars, xvars, fvars, errorsTxt, opts, nfiles, root0, idx, successCount, failedCount,
                   errors, copies, archive, inWriter, fileCh, closed, sent, wpc, wfile,
                   notified, signalCh, signals, observed, failures>>

(***************************************************************************)
(* CopyFile and the bookkeeping of the copy loops.  The outcome of one     *)
(* CopyFile call: "ok" (written), "outside" (IsFileOutsideRepo: nil is     *)
(* returned and nothing is written), or the step that failed.              *)
(***************************************************************************)
Outcomes == {"ok", "outside", "fetch", "mkdir", "write"}

\* The outcomes CopyFile can have for file f.  When the export set is the
\* result of filterAndProcess, IsFileOutsideRepo and GetFileContent answer
\* for its path as the provider does; a caller of ExportFiles alone hands
\* over files the model knows nothing about.
OutcomesOf(f) ==
    IF result = <<>> THEN Outcomes
    ELSE IF IsFileOutsideRepo(result[f].Path) THEN {"outside"}
    ELSE IF GetFileContent(result[f].Path).err THEN {"fetch"}
    ELSE {"ok", "mkdir", "write"}

\* Whether GetFileContent fails for file f in an archive export.
FetchFails(f) ==
    IF result = <<>> THEN BOOLEAN ELSE {GetFileContent(result[f].Path).err}

Failed(out) == out \in {"fetch", "mkdir", "write"}

\* The output directory after CopyFile(f) ended with `out`.
CopyFile(r, f, out) ==
    IF out = "ok" THEN WriteFile(r, Name(f), FileContent(f)) ELSE r

AddErrorLost(errs, f) == <<f>>

\* e.errors = append(e.errors, err): the error of file f (its text is "path: cause").
AddError(errs, f) == Append(errs, f)

\* err.Error() of a recorded error: one line, "path: cause".
ErrorLine(f) == Name(f)

errorStringTrailingNewline(errs) ==
    LET RECURSIVE join(_)
        join(k) == IF k > Len(errs) THEN <<>>
                   ELSE <<ErrorLine(errs[k]), "\n">> \o join(k + 1)
    IN join(1)

\* The lines of the errors in the order of e.errors, a newline after each
\* but the last.
errorString(errs) ==
    LET RECURSIVE join(_)
        join(k) == IF k > Len(errs) THEN <<>>
                   ELSE IF k < Len(errs) THEN <<ErrorLine(errs[k]), "\n">> \o join(k + 1)
                   ELSE <<ErrorLine(errs[k])>>
    IN join(1)

\* WriteError: io.WriteString(w, e.errorString()); the result of the write
\* is discarded by the code.
WriteError == [written |-> TRUE, text |-> errorString(errors)]

HasErrorsAlways == TRUE

ErrorCount == Len(errors)

HasErrors == ErrorCount > 0

Counts(s, f) == [success |-> s, failed |-> f]

TallyFallThrough(s, f, err) ==
    IF err THEN Counts(s + 1, f + 1) ELSE Counts(s + 1, f)

\* failedCount++ and goto update_progress, or successCount++.
Tally(s, f, err) ==
    IF err THEN Counts(s, f + 1) ELSE Counts(s + 1, f)

Started(f) == [copies EXCEPT ![f] = @ + 1]

SeqAdvanceStopOnError(i, err) == IF err THEN nfiles ELSE i + 1

\* The range loop goes on to the next file, whatever the outcome.
SeqAdvance(i, err) == i + 1

copySequential ==
    /\ Running
    /\ pc = "copySequential"
    /\ idx < nfiles
    /\ \E out \in OutcomesOf(idx + 1) :
        LET f == idx + 1
            t == Tally(successCount, failedCount, Failed(out))
        IN /\ copies' = Started(f)
           /\ root' = CopyFile(root, f, out)
           /\ failures' = IF Failed(out) THEN failures \cup {f} ELSE failures
           /\ errors' = IF Failed(out) THEN AddError(errors, f) ELSE errors
           /\ successCount' = t.success
           /\ failedCount' = t.failed
           /\ idx' = SeqAdvance(idx, Failed(out))
    /\ progress' = progress + 1
    /\ UNCHANGED <<uvars, xvars, fvars, errorsTxt, opts, nfiles, root0, prep, pc, ret, archive, inWriter, fileCh,
                   closed, sent, wpc, wfile, notified, signalCh, signals, observed>>

copySequentialReturn ==
    /\ Running
    /\ pc = "copySequential"
    /\ idx >= nfiles
    /\ pc' = "summary"
    /\ UNCHANGED <<uvars, xvars, fvars, progress, errorsTxt, opts, nfiles, root0, root, prep, ret, idx, successCount, failedCount,
                   errors, copies, archive, inWriter, fileCh, closed, sent, wpc, wfile,
                   notified, signalCh, signals, observed, failures>>

(***************************************************************************)
(* copyConcurrent: numWorkers workers select on signalCh and fileCh, a     *)
(* producer goroutine feeds fileCh and closes it, the caller waits for     *)
(* the workers.                                                            *)
(***************************************************************************)
copyConcurrent ==
    /\ Running
    /\ pc = "copyConcurrent"
    /\ notified' = TRUE
    /\ wpc' = [w \in Workers |-> "select"]
    /\ pc' = "wg.Wait"
    /\ UNCHANGED <<uvars, xvars, fvars, progress, errorsTxt, opts, nfiles, root0, root, prep, ret, idx, successCount, failedCount,
                   errors, copies, archive, inWriter, fileCh, closed, sent, wfile,
                   signalCh, signals, observed, failures>>

ProducerSendUnbounded ==
    /\ Running
    /\ notified
    /\ ~closed
    /\ sent < nfiles
    /\ fileCh' = Append(fileCh, sent + 1)
    /\ sent' = sent + 1
    /\ UNCHANGED <<uvars, xvars, fvars, progress, errorsTxt, opts, nfiles, root0, root, prep, pc, ret,
                   idx, successCount, failedCount, errors, copies, archive, inWriter, closed,
                   wpc, wfile, notified, signalCh, signals, observed, failures>>

\* The producer goroutine: fileCh <- f, blocking while the buffer is full.
ProducerSend ==
    /\ Running
    /\ notified
    /\ ~closed
    /\ sent < nfiles
    /\ Len(fileCh) < bufferSize
    /\ fileCh' = Append(fileCh, sent + 1)
    /\ sent' = sent + 1
    /\ UNCHANGED <<uvars, xvars, fvars, progress, errorsTxt, opts, nfiles, root0, root, prep, pc, ret, idx, successCount,
                   failedCount, errors, copies, archive, inWriter, closed, wpc, wfile,
                   notified, signalCh, signals, observed, failures>>

ProducerClose ==
    /\ Running
    /\ notified
    /\ ~closed
    /\ sent = nfiles
    /\ closed' = TRUE
    /\ UNCHANGED <<uvars, xvars, fvars, progress, errorsTxt, opts, nfiles, root0, root, prep, pc, ret, idx, successCount,
                   failedCount, errors, copies, archive, inWriter, fileCh, sent, wpc, wfile,
                   notified, signalCh, signals, observed, failures>>

\* case <-signalCh: return
WorkerSignal(w) ==
    /\ Running
    /\ wpc[w] = "select"
    /\ signalCh > 0
    /\ signalCh' = signalCh - 1
    /\ observed' = observed + 1
    /\ wpc' = [wpc EXCEPT ![w] = "exit"]
    /\ UNCHANGED <<uvars, xvars, fvars, progress, errorsTxt, opts, nfiles, root0, root, prep, pc, ret, idx, successCount,
                   failedCount, errors, copies, archive, inWriter, fileCh, closed, sent,
                   wfile, notified, signals, failures>>

\* case f, ok := <-fileCh with ok true
WorkerReceive(w) ==
    /\ Running
    /\ wpc[w] = "select"
    /\ fileCh # <<>>
    /\ wfile' = [wfile EXCEPT ![w] = Head(fileCh)]
    /\ fileCh' = Tail(fileCh)
    /\ copies' = Started(Head(fileCh))
    /\ wpc' = [wpc EXCEPT ![w] = "CopyFile"]
    /\ UNCHANGED <<uvars, xvars, fvars, progress, errorsTxt, opts, nfiles, root0, root, prep, pc, ret, idx, successCount,
                   failedCount, errors, archive, inWriter, closed, sent,
                   notified, signalCh, signals, observed, failures>>

\* case f, ok := <-fileCh with ok false: the channel is closed and drained
WorkerClosed(w) ==
    /\ Running
    /\ wpc[w] = "select"
    /\ fileCh = <<>>
    /\ closed
    /\ wpc' = [wpc EXCEPT ![w] = "exit"]
    /\ UNCHANGED <<uvars, xvars, fvars, progress, errorsTxt, opts, nfiles, root0, root, prep, pc, ret, idx, successCount,
                   failedCount, errors, copies, archive, inWriter, fileCh, closed, sent,
                   wfile, notified, signalCh, signals, observed, failures>>

\* After update_progress the worker is back at the select.
WorkerAfterCopy(err) == "select"

\* CopyFile returns; AddError and the counters.
WorkerCopy(w) ==
    /\ Running
    /\ wpc[w] = "CopyFile"
    /\ \E out \in OutcomesOf(wfile[w]) :
        LET f == wfile[w]
            t == Tally(successCount, failedCount, Failed(out))
        IN /\ root' = CopyFile(root, f, out)
           /\ failures' = IF Failed(out) THEN failures \cup {f} ELSE failures
           /\ errors' = IF Failed(out) THEN AddError(errors, f) ELSE errors
           /\ successCount' = t.success
           /\ failedCount' = t.failed
           /\ wpc' = [wpc EXCEPT ![w] = WorkerAfterCopy(Failed(out))]
    /\ wfile' = [wfile EXCEPT ![w] = 0]
    /\ progress' = progress + 1
    /\ UNCHANGED <<uvars, xvars, fvars, errorsTxt, opts, nfiles, root0, prep, pc, ret, idx, copies, archive, inWriter,
                   fileCh, closed, sent, notified, signalCh, signals, observed>>

WaitReturnsAfterAnyWorker == \E w \in Workers : wpc[w] = "exit"

\* wg.Wait() returns when every worker has returned.
WaitReturns == \A w \in Workers : wpc[w] = "exit"

wgWait ==
    /\ Running
    /\ pc = "wg.Wait"
    /\ WaitReturns
    /\ pc' = "summary"
    /\ UNCHANGED <<uvars, xvars, fvars, progress, errorsTxt, opts, nfiles, root0, root, prep, ret, idx, successCount, failedCount,
                   errors, copies, archive, inWriter, fileCh, closed, sent, wpc, wfile,
                   notified, signalCh, signals, observed, failures>>

\* SIGINT or SIGTERM reaches the process.  With signal.Notify in force the
\* runtime sends it to signalCh without blocking (it is dropped when the
\* buffer is full); without, the process is terminated.
Signal ==
    /\ Running
    /\ signals < MaxSignals
    /\ signals' = signals + 1
    /\ IF notified
        THEN /\ signalCh' = IF signalCh < signalBuffer THEN signalCh + 1 ELSE signalCh
             /\ pc' = pc
        ELSE /\ pc' = "killed"
             /\ signalCh' = signalCh
    /\ UNCHANGED <<uvars, xvars, fvars, progress, errorsTxt, opts, nfiles, root0, root, prep, ret, idx, successCount, failedCount,
                   errors, copies, archive, inWriter, fileCh, closed, sent, wpc, wfile,
                   notified, observed, failures>>

(***************************************************************************)
(* runExport after the copy: summary.txt, then errors.txt if HasErrors     *)
(***************************************************************************)
writeSummary ==
    /\ Running
    /\ pc = "summary"
    /\ \E fail \in BOOLEAN :
        IF fail
            THEN /\ Return("err")
                 /\ root' = root
            ELSE /\ root' = WriteFile(root, "summary.txt", ManifestContent)
                 /\ pc' = "errorsTxt"
                 /\ ret' = ret
    /\ manifest' = Generated(changes)
    /\ UNCHANGED <<uvars, repo, clientCalls, fvars, progress, errorsTxt, opts, nfiles, root0, prep, idx, successCount, failedCount,
                   errors, copies, archive, inWriter, fileCh, closed, sent, wpc, wfile,
                   notified, signalCh, signals, observed, failures>>

writeErrors ==
    /\ Running
    /\ pc = "errorsTxt"
    /\ IF HasErrors
        THEN \E fail \in BOOLEAN :
            IF fail
                THEN /\ Return("err")
                     /\ root' = root
                     /\ errorsTxt' = errorsTxt
                ELSE /\ Return("nil")
                     /\ root' = WriteFile(root, "errors.txt", ErrorsContent)
                     /\ errorsTxt' = WriteError
        ELSE /\ Return("nil")
             /\ root' = root
             /\ errorsTxt' = errorsTxt
    /\ UNCHANGED <<uvars, xvars, fvars, progress, opts, nfiles, root0, prep, idx, successCount, failedCount,
                   errors, copies, archive, inWriter, fileCh, closed, sent, wpc, wfile,
                   notified, signalCh, signals, observed, failures>>

(***************************************************************************)
(* exportToZip / exportToTarGz: one writer, used by the calling goroutine  *)
(***************************************************************************)
\* An entry is created and written through the writer of the archive file.
AddEntry(name) == [archive EXCEPT !.entries = Append(@, name)]

\* os.Create(e.opts.ArchivePath)
archiveCreate ==
    /\ Running
    /\ pc = "archiveCreate"
    /\ \E fail \in BOOLEAN :
        IF fail
            THEN /\ Return("err")
                 /\ archive' = archive
                 /\ progress' = progress
            ELSE /\ archive' = [archive EXCEPT !.created = TRUE,
                                             !.format = ArchiveFormat(opts.ArchivePath)]
                 /\ pc' = "archiveLoop"
                 /\ ret' = ret
                 /\ progress' = progress + 1
    /\ UNCHANGED <<uvars, xvars, fvars, errorsTxt, opts, nfiles, root0, root, prep, idx, successCount, failedCount,
                   errors, copies, inWriter, fileCh, closed, sent, wpc, wfile,
                   notified, signalCh, signals, observed, failures>>

\* GetFileContent for the next file of the range loop.
archiveFetch ==
    /\ Running
    /\ pc = "archiveLoop"
    /\ idx < nfiles
    /\ copies' = Started(idx + 1)
    /\ \E fail \in FetchFails(idx + 1) :
        IF fail
            THEN LET t == Tally(successCount, failedCount, TRUE)
                 IN /\ failures' = failures \cup {idx + 1}
                    /\ errors' = AddError(errors, idx + 1)
                    /\ successCount' = t.success
                    /\ failedCount' = t.failed
                    /\ idx' = SeqAdvance(idx, TRUE)
                    /\ progress' = progress + 1
                    /\ UNCHANGED <<pc, inWriter>>
            ELSE /\ pc' = "archiveWrite"
                 /\ inWriter' = inWriter \cup {"main"}
                 /\ UNCHANGED <<errors, successCount, failedCount, idx, failures, progress>>
    /\ UNCHANGED <<uvars, xvars, fvars, errorsTxt, opts, nfiles, root0, root, prep, ret, archive, fileCh, closed,
                   sent, wpc, wfile, notified, signalCh, signals, observed>>

\* w.Create + fw.Write (zip), tw.WriteHeader + tw.Write (tar): a failure
\* returns from the export.
archiveWrite ==
    /\ Running
    /\ pc = "archiveWrite"
    /\ inWriter' = inWriter \ {"main"}
    /\ \E fail \in BOOLEAN :
        IF fail
            THEN /\ Return("err")
                 /\ UNCHANGED <<archive, successCount, failedCount, idx, progress>>
            ELSE LET t == Tally(successCount, failedCount, FALSE)
                 IN /\ archive' = AddEntry(Name(idx + 1))
                    /\ successCount' = t.success
                    /\ failedCount' = t.failed
                    /\ idx' = SeqAdvance(idx, FALSE)
                    /\ pc' = "archiveLoop"
                    /\ ret' = ret
                    /\ progress' = progress + 1
    /\ UNCHANGED <<uvars, xvars, fvars, errorsTxt, opts, nfiles, root0, root, prep, errors, copies, fileCh, closed,
                   sent, wpc, wfile, notified, signalCh, signals, observed, failures>>

archiveSummary ==
    /\ Running
    /\ pc = "archiveLoop"
    /\ idx >= nfiles
    /\ \E fail \in BOOLEAN :
        IF fail
            THEN /\ Return("err")
                 /\ archive' = archive
            ELSE /\ archive' = AddEntry("summary.txt")
                 /\ pc' = "archiveErrors"
                 /\ ret' = ret
    /\ manifest' = Generated(changes)
    /\ UNCHANGED <<uvars, repo, clientCalls, fvars, progress, errorsTxt, opts, nfiles, root0, root, prep, idx, successCount, failedCount,
                   errors, copies, inWriter, fileCh, closed, sent, wpc, wfile,
                   notified, signalCh, signals, observed, failures>>

archiveErrors ==
    /\ Running
    /\ pc = "archiveErrors"
    /\ IF HasErrors
        THEN \E fail \in BOOLEAN :
            IF fail
                THEN /\ Return("err")
                     /\ archive' = archive
                     /\ errorsTxt' = errorsTxt
                ELSE /\ Return("nil")
                     /\ archive' = AddEntry("errors.txt")
                     /\ errorsTxt' = WriteError
        ELSE /\ Return("nil")
             /\ archive' = archive
             /\ errorsTxt' = errorsTxt
    /\ UNCHANGED <<uvars, xvars, fvars, progress, opts, nfiles, root0, root, prep, idx, successCount, failedCount,
                   errors, copies, inWriter, fileCh, closed, sent, wpc, wfile,
                   notified, signalCh, signals, observed, failures>>

(***************************************************************************)
(* The specification of one run of ExportFiles                             *)
(***************************************************************************)
FIdle ==
    /\ changes = <<>>
    /\ fopts = [IncludePatterns |-> <<>>, IgnorePatterns |-> <<>>, MaxSize |-> 0]
    /\ provider = [p \in Paths |-> NoAnswer]
    /\ fi = 0
    /\ result = <<>>
    /\ jsonFiles = <<>>
    /\ calls = <<>>
    /\ previous = <<>>

Init ==
    /\ FIdle
    /\ XIdle
    /\ UIdle
    /\ opts \in [Preview : BOOLEAN, ArchivePath : ArchivePaths, Concurrent : BOOLEAN,
                 Overwrite : BOOLEAN]
    /\ nfiles \in 1..MaxFiles
    /\ root0 \in Roots
    /\ root = root0
    /\ prep = "none"
    /\ pc = "ExportFiles"
    /\ ret = "none"
    /\ idx = 0
    /\ successCount = 0
    /\ failedCount = 0
    /\ errors = <<>>
    /\ copies = [f \in 1..nfiles |-> 0]
    /\ archive = [created |-> FALSE, format |-> "none", entries |-> <<>>]
    /\ inWriter = {}
    /\ fileCh = <<>>
    /\ closed = FALSE
    /\ sent = 0
    /\ wpc = [w \in Workers |-> "idle"]
    /\ wfile = [w \in Workers |-> 0]
    /\ notified = FALSE
    /\ signalCh = 0
    /\ signals = 0
    /\ observed = 0
    /\ failures = {}
    /\ progress = 0
    /\ errorsTxt = NotWritten

Next ==
    \/ ExportFiles
    \/ runPreview
    \/ runExport
    \/ copySequential
    \/ copySequentialReturn
    \/ copyConcurrent
    \/ ProducerSend
    \/ ProducerClose
    \/ \E w \in Workers : WorkerSignal(w)
    \/ \E w \in Workers : WorkerReceive(w)
    \/ \E w \in Workers : WorkerClosed(w)
    \/ \E w \in Workers : WorkerCopy(w)
    \/ wgWait
    \/ writeSummary
    \/ writeErrors
    \/ archiveCreate
    \/ archiveFetch
    \/ archiveWrite
    \/ archiveSummary
    \/ archiveErrors
    \/ Signal

Spec == Init /\ [][Next]_vars

(***************************************************************************)
(* Export: validate, GetChangedFiles, filterAndProcess, ExportFiles        *)
(***************************************************************************)
validateCommitsFirst(rp) ==
    IF ~rp.IsGitRepository
        THEN [err |-> "not a git repository", calls |-> <<"IsGitRepository">>]
    ELSE IF ~rp.FromCommit
        THEN [err |-> "invalid from-commit", calls |-> <<"IsGitRepository", "ValidateCommit(from)">>]
    ELSE IF ~rp.ToCommit
        THEN [err |-> "invalid to-commit",
              calls |-> <<"IsGitRepository", "ValidateCommit(from)", "ValidateCommit(to)">>]
    ELSE IF ~rp.HasCommits
        THEN [err |-> "repository has no commits",
              calls |-> <<"IsGitRepository", "ValidateCommit(from)", "ValidateCommit(to)",
                          "HasCommits">>]
    ELSE [err |-> "nil",
          calls |-> <<"IsGitRepository", "ValidateCommit(from)", "ValidateCommit(to)",
                      "HasCommits">>]

NoFilesNever(list) == FALSE

\* len(changes) == 0, len(filesToCopy) == 0
NoFiles(list) == Len(list) = 0

\* validate: the checks in their order, up to the first that fails; the
\* calls it made on the client and the error it returns.
validate(rp) ==
    IF ~rp.IsGitRepository
        THEN [err |-> "not a git repository", calls |-> <<"IsGitRepository">>]
    ELSE IF ~rp.HasCommits
        THEN [err |-> "repository has no commits", calls |-> <<"IsGitRepository", "HasCommits">>]
    ELSE IF ~rp.FromCommit
        THEN [err |-> "invalid from-commit",
              calls |-> <<"IsGitRepository", "HasCommits", "ValidateCommit(from)">>]
    ELSE IF ~rp.ToCommit
        THEN [err |-> "invalid to-commit",
              calls |-> <<"IsGitRepository", "HasCommits", "ValidateCommit(from)",
                          "ValidateCommit(to)">>]
    ELSE [err |-> "nil",
          calls |-> <<"IsGitRepository", "HasCommits", "ValidateCommit(from)",
                      "ValidateCommit(to)">>]

\* if err := e.validate(); err != nil { return err }
Export ==
    /\ Running
    /\ pc = "Export"
    /\ LET v == validate(repo)
       IN /\ clientCalls' = clientCalls \o v.calls
          /\ IF v.err # "nil"
                THEN Return(v.err)
                ELSE /\ pc' = "GetChangedFiles"
                     /\ ret' = ret
    /\ UNCHANGED <<uvars, fvars, repo, manifest, opts, nfiles, root0, root, prep, idx, successCount,
                   failedCount, errors, copies, archive, inWriter, fileCh, closed, sent, wpc,
                   wfile, notified, signalCh, signals, observed, failures, progress, errorsTxt>>

\* changes, err := e.client.GetChangedFiles(...); an error and an empty
\* list both return.
GetChangedFiles ==
    /\ Running
    /\ pc = "GetChangedFiles"
    /\ clientCalls' = Append(clientCalls, "GetChangedFiles")
    /\ IF repo.GetChangedFiles.err
        THEN /\ Return("err")
             /\ changes' = changes
        ELSE /\ changes' = repo.GetChangedFiles.changes
             /\ IF NoFiles(repo.GetChangedFiles.changes)
                    THEN Return("nil")
                    ELSE /\ pc' = "filterAndProcess"
                         /\ ret' = ret
    /\ UNCHANGED <<uvars, fopts, fi, result, jsonFiles, provider, calls, previous, repo, manifest, opts, nfiles,
                   root0, root, prep, idx, successCount, failedCount, errors, copies, archive,
                   inWriter, fileCh, closed, sent, wpc, wfile, notified, signalCh, signals,
                   observed, failures, progress, errorsTxt>>

\* filesToCopy := e.filterAndProcess(changes), one iteration of its loop.
exportFilter ==
    /\ Running
    /\ pc = "filterAndProcess"
    /\ filterAndProcess

\* if len(filesToCopy) == 0 { return nil }; return e.ExportFiles(filesToCopy, changes)
exportFiltered ==
    /\ Running
    /\ pc = "filterAndProcess"
    /\ fi = Len(changes)
    /\ IF NoFiles(result)
        THEN /\ Return("nil")
             /\ UNCHANGED <<nfiles, copies>>
        ELSE /\ pc' = "ExportFiles"
             /\ ret' = ret
             /\ nfiles' = Len(result)
             /\ copies' = [f \in 1..Len(result) |-> 0]
    /\ UNCHANGED <<uvars, xvars, fvars, opts, root0, root, prep, idx, successCount, failedCount,
                   errors, archive, inWriter, fileCh, closed, sent, wpc, wfile, notified,
                   signalCh, signals, observed, failures, progress, errorsTxt>>

\* Change lists a diff can give: added, copied and deleted files.
ExportChangeLists ==
    {cs \in ChangeLists :
        \A i \in DOMAIN cs :
            \/ cs[i].Status \in {StatusAdded, StatusDeleted}
            \/ cs[i].Status = StatusCopied /\ cs[i].Path = PathA}

\* What the client answers to the calls of validate and to GetChangedFiles.
Repos ==
    {rp \in [IsGitRepository : BOOLEAN, HasCommits : BOOLEAN, FromCommit : BOOLEAN,
             ToCommit : BOOLEAN,
             GetChangedFiles : {[err |-> TRUE, changes |-> <<>>]}
                                 \cup {[err |-> FALSE, changes |-> cs] : cs \in ExportChangeLists}] :
        \* one diff stands for all when validate fails
        (rp.IsGitRepository /\ rp.HasCommits /\ rp.FromCommit /\ rp.ToCommit)
            \/ rp.GetChangedFiles = [err |-> FALSE, changes |-> <<FileChange(StatusAdded, PathA)>>]}

ExportFilters ==
    {[IncludePatterns |-> <<>>, IgnorePatterns |-> <<>>, MaxSize |-> 0],
     [IncludePatterns |-> <<>>, IgnorePatterns |-> <<PatQ>>, MaxSize |-> 0],
     [IncludePatterns |-> <<PatB, PatDirStar>>, IgnorePatterns |-> <<>>, MaxSize |-> SizeLimit]}

\* A path whose content cannot be read, one with content longer than
\* SizeLimit, one outside the repository.
ExportAnswers ==
    {NoAnswer,
     [outside |-> FALSE, content |-> [err |-> FALSE, len |-> MaxLen]],
     [outside |-> TRUE, content |-> [err |-> FALSE, len |-> MaxLen]]}

ExportOptions ==
    [Preview : BOOLEAN, ArchivePath : {<<>>, ArchTgz}, Concurrent : BOOLEAN, Overwrite : {TRUE}]

ExportRoots == {Dir("dir", {"old.txt"})}

ExportInit(repos, paths) ==
    /\ UIdle
    /\ repo \in repos
    /\ clientCalls = <<>>
    /\ manifest = NotGenerated
    /\ changes = <<>>
    /\ fopts \in ExportFilters
    /\ provider \in [paths -> ExportAnswers]
    /\ \A p \in paths :
            (\A i \in DOMAIN repo.GetChangedFiles.changes : repo.GetChangedFiles.changes[i].Path # p)
                => provider[p] = NoAnswer
    /\ fi = 0
    /\ result = <<>>
    /\ jsonFiles = <<>>
    /\ calls = <<>>
    /\ previous = <<>>
    /\ opts \in ExportOptions
    /\ nfiles = 0
    /\ root0 \in ExportRoots
    /\ root = root0
    /\ prep = "none"
    /\ pc = "Export"
    /\ ret = "none"
    /\ idx = 0
    /\ successCount = 0
    /\ failedCount = 0
    /\ errors = <<>>
    /\ copies = <<>>
    /\ archive = [created |-> FALSE, format |-> "none", entries |-> <<>>]
    /\ inWriter = {}
    /\ fileCh = <<>>
    /\ closed = FALSE
    /\ sent = 0
    /\ wpc = [w \in Workers |-> "idle"]
    /\ wfile = [w \in Workers |-> 0]
    /\ notified = FALSE
    /\ signalCh = 0
    /\ signals = 0
    /\ observed = 0
    /\ failures = {}
    /\ progress = 0
    /\ errorsTxt = NotWritten

InitExport == ExportInit(Repos, Paths)

NextExport ==
    \/ Export
    \/ GetChangedFiles
    \/ exportFilter
    \/ exportFiltered
    \/ Next

SpecExport == InitExport /\ [][NextExport]_vars

(***************************************************************************)
(* manifest.Generate applied to a change list                              *)
(***************************************************************************)
manifestGenerate ==
    /\ pc = "idle"
    /\ ~manifest.generated
    /\ manifest' = Generated(changes)
    /\ UNCHANGED <<uvars, fvars, evars, repo, clientCalls>>

InitManifest ==
    /\ EIdle
    /\ changes \in ManifestChangeLists
    /\ fopts = [IncludePatterns |-> <<>>, IgnorePatterns |-> <<>>, MaxSize |-> 0]
    /\ provider = [p \in Paths |-> NoAnswer]
    /\ fi = 0
    /\ result = <<>>
    /\ jsonFiles = <<>>
    /\ calls = <<>>
    /\ previous = <<>>
    /\ XIdle
    /\ UIdle

NextManifest == manifestGenerate

SpecManifest == InitManifest /\ [][NextManifest]_vars

(***************************************************************************)
(* Claims about manifest.Generate (checked under SpecManifest)             *)
(***************************************************************************)
\* The lines of a text: the pieces between its newlines; the empty text
\* has no line.
RECURSIVE SplitLines(_, _)
SplitLines(text, line) ==
    IF text = <<>> THEN <<line>>
    ELSE IF Head(text) = "\n" THEN <<line>> \o SplitLines(Tail(text), <<>>)
    ELSE SplitLines(Tail(text), Append(line, Head(text)))

Lines(text) == IF text = <<>> THEN <<>> ELSE SplitLines(text, <<>>)

\* The entries a group is to show: paths, or "path (previously oldPath)".
GroupEntries(status) ==
    {IF status = "R" THEN Previously(changes[i]) ELSE changes[i].Path :
        i \in {k \in DOMAIN changes : changes[k].Status = status}}

\* The ascending enumeration of a set of strings.
Ascending(S) ==
    CHOOSE q \in [1..Cardinality(S) -> S] :
        \A i, j \in 1..Cardinality(S) : i < j => Less(q[i], q[j])

GroupLines(header, status) ==
    IF GroupEntries(status) = {} THEN <<>>
    ELSE <<header>> \o [k \in 1..Cardinality(GroupEntries(status)) |->
                            <<"-", " ">> \o Ascending(GroupEntries(status))[k]]

ExpectedLines ==
    GroupLines(HeaderNew, "A") \o GroupLines(HeaderModified, "M")
        \o GroupLines(HeaderRenamed, "R") \o GroupLines(HeaderDeleted, "D")

\* C14: the lines of Generate's output are, in this order, the groups new
\* files, modified, renamed, deleted; a group has its header and then its
\* entries as "- <entry>" in ascending order (renamed: "- path (previously
\* oldPath)"), and a group without entries has no line at all; the output
\* does not end with a newline and is empty for an empty change list.
C14_ManifestFormat ==
    manifest.generated =>
        /\ Lines(manifest.text) = ExpectedLines
        /\ manifest.text # <<>> => manifest.text[Len(manifest.text)] # "\n"
        /\ changes = <<>> => manifest.text = <<>>

C14_Witness ==
    /\ manifest.generated
    /\ changes = <<FileChange("R", PathDA), FileChange("M", PathAB), FileChange("M", PathA)>>
    /\ Lines(manifest.text) = <<HeaderModified, <<"-", " ">> \o PathA, <<"-", " ">> \o PathAB,
                                HeaderRenamed, <<"-", " ">> \o Previously(changes[1])>>

(***************************************************************************)
(* Claims about the run of ExportFiles (checked under Spec)                *)
(***************************************************************************)
Recorded(f) == \E k \in 1..Len(errors) : errors[k] = f

TreeRun == prep = "ok"

ArchiveRun == archive.created

\* copySequential or copyConcurrent has returned to runExport.
TreeCopyReturned == TreeRun /\ pc \in {"summary", "errorsTxt", "returned"}

\* The range loop of exportToZip / exportToTarGz ran to its end.
ArchiveLoopDone == ArchiveRun /\ (pc = "archiveErrors" \/ (pc = "returned" /\ idx = nfiles))

AllAttempted == \A f \in Files : copies[f] >= 1

C5_State ==
    /\ \A f \in failures : Recorded(f)
    /\ (TreeCopyReturned /\ observed = 0) => AllAttempted
    /\ ArchiveLoopDone => AllAttempted

\* A step in which a file fails leaves its loop running: the sequential
\* and the archive loop go on with the next file, the worker goes back to
\* its select, and nothing is returned.
C5_Step ==
    failures' # failures =>
        /\ ret' = "none"
        /\ pc' = pc
        /\ pc \in {"copySequential", "archiveLoop"} => idx' = idx + 1
        /\ \A w \in Workers : wpc[w] = "CopyFile" => wpc'[w] \in {"CopyFile", "select"}

\* C5: in a tree-sink transfer, sequential or concurrent, a failure of any
\* step of CopyFile for one file is recorded for that path and every other
\* file of the export set is still attempted; in an archive export a failed
\* content fetch is recorded and the remaining files are still attempted.
C5_PartialFailureTolerance == []C5_State /\ [][C5_Step]_vars

C5_Witness ==
    /\ TreeCopyReturned
    /\ opts.Concurrent
    /\ nfiles = 2
    /\ failures = {1}
    /\ errors = <<1>>
    /\ Name(2) \in root.entries

ConcurrentDone == TreeCopyReturned /\ opts.Concurrent

\* C6: when copyConcurrent has returned and no signal was delivered,
\* successCount + failedCount = N, every file was handed to CopyFile
\* exactly once, and it was counted exactly once: as a failure (with one
\* error record) if its copy failed, as a success otherwise.
C6_EveryFileOnce ==
    (ConcurrentDone /\ signals = 0) =>
        /\ successCount + failedCount = nfiles
        /\ \A f \in Files : copies[f] = 1
        /\ failedCount = Cardinality(failures)
        /\ successCount = nfiles - Cardinality(failures)
        /\ Len(errors) = Cardinality(failures)
        /\ \A f \in failures : Recorded(f)

C6_Witness ==
    /\ ConcurrentDone
    /\ signals = 0
    /\ nfiles = 2
    /\ successCount = 1
    /\ failedCount = 1
    /\ errors = <<2>>

C7_Step ==
    /\ successCount' >= successCount
    /\ failedCount' >= failedCount

\* C7: in every state of a transfer, sequential, concurrent or archive,
\* cancelled or not, successCount + failedCount is at most the size of the
\* export set, and no step decreases successCount or failedCount.
C7_CountersMonotoneBounded ==
    [](successCount + failedCount <= nfiles) /\ [][C7_Step]_vars

C7_Witness ==
    /\ observed > 0
    /\ opts.Concurrent
    /\ nfiles = 2
    /\ successCount = 1
    /\ failedCount = 1

\* C8 as stated: once a signal has been received from signalCh by a worker,
\* no worker of the pool starts copying a further file.
C8_NoStartAfterSignal ==
    [][observed > 0 => \A w \in Workers : ~(wpc[w] = "select" /\ wpc'[w] = "CopyFile")]_vars

PrepareReturned == prep # "none"

Untouched == root = root0

NothingCopied ==
    /\ \A f \in Files : copies[f] = 0
    /\ root.entries \subseteq root0.entries

\* C9 as stated: the four rows of the table and nothing else.
C9_Original ==
    PrepareReturned =>
        /\ root0.kind = "file" => (prep # "ok" /\ Untouched)
        /\ (root0.kind = "dir" /\ ~opts.Overwrite) => (prep # "ok" /\ Untouched)
        /\ (root0.kind = "dir" /\ opts.Overwrite) =>
                (prep = "ok" /\ root.kind = "dir" /\ root.entries \cap root0.entries = {})
        /\ root0.kind = "absent" => (prep = "ok" /\ root.kind = "dir")
        /\ prep # "ok" => (ret = "err" /\ NothingCopied)

\* C9 amended: the rows of the table hold when stat, RemoveAll and MkdirAll
\* succeed; when one of them fails PrepareOutputDir returns an error (an
\* absent root is then not created, a directory that was to be replaced may
\* be left partly or wholly removed).  A root that is a file, or a
\* directory without overwrite, is never touched; on every error return no
\* file has been copied.
C9_PrepareOutputDir ==
    PrepareReturned =>
        /\ root0.kind = "file" => (prep # "ok" /\ Untouched)
        /\ (root0.kind = "dir" /\ ~opts.Overwrite) => (prep # "ok" /\ Untouched)
        /\ (root0.kind = "dir" /\ opts.Overwrite) =>
                \/ prep = "ok" /\ root.kind = "dir" /\ root.entries \cap root0.entries = {}
                \/ prep = "ioerr" /\ root.entries \subseteq root0.entries
        /\ root0.kind = "absent" =>
                \/ prep = "ok" /\ root.kind = "dir"
                \/ prep = "ioerr" /\ Untouched
        /\ prep = "ok" /\ pc \in {"copySequential", "copyConcurrent"} /\ idx = 0 => root = EmptyDir
        /\ prep # "ok" => (ret = "err" /\ NothingCopied)

C9_Witness ==
    /\ root0 = Dir("dir", {"old.txt"})
    /\ opts.Overwrite
    /\ prep = "ok"
    /\ pc = "returned"
    /\ ret = "nil"
    /\ root.entries = {Name(1), "summary.txt"}

ArchivePcs == {"archiveCreate", "archiveLoop", "archiveWrite", "archiveErrors", "returned", "killed"}

\* C10: an export with an archive path (and no preview) runs on the calling
\* goroutine alone, also with Concurrent set: no worker is started, at most
\* one goroutine is inside a call on the archive writer, the output
\* directory is not touched, and the file entries, summary.txt and
\* errors.txt are the entries of the one archive, in that order.
C10_SingleWriter ==
    (~opts.Preview /\ opts.ArchivePath # <<>> /\ pc # "ExportFiles") =>
        /\ pc \in ArchivePcs
        /\ \A w \in Workers : wpc[w] = "idle"
        /\ ~notified
        /\ Cardinality(inWriter) <= 1
        /\ inWriter # {} => pc \in {"archiveWrite", "killed"}
        /\ pc = "archiveWrite" => inWriter = {"main"}
        /\ prep = "none" /\ Untouched
        /\ Len(archive.entries) <= nfiles + 2
        /\ (pc = "returned" /\ ret = "nil") =>
                /\ Len(archive.entries) = successCount + 1 + (IF HasErrors THEN 1 ELSE 0)
                /\ archive.entries[successCount + 1] = "summary.txt"
                /\ HasErrors => archive.entries[successCount + 2] = "errors.txt"

C10_Witness ==
    /\ opts.Concurrent
    /\ opts.ArchivePath = ArchZIP
    /\ pc = "archiveWrite"
    /\ inWriter = {"main"}
    /\ archive.format = "zip"
    /\ archive.entries = <<Name(1)>>

SummaryWritten ==
    \/ "summary.txt" \in root.entries
    \/ \E k \in 1..Len(archive.entries) : archive.entries[k] = "summary.txt"

ErrorsWritten ==
    \/ "errors.txt" \in root.entries
    \/ \E k \in 1..Len(archive.entries) : archive.entries[k] = "errors.txt"

\* PrepareOutputDir returned nil, or the archive file was created.
PastPreparation == prep = "ok" \/ archive.created

NoCopyRunning ==
    /\ pc \notin {"copySequential", "copyConcurrent", "wg.Wait", "archiveLoop", "archiveWrite"}
    /\ \A w \in Workers : wpc[w] \in {"idle", "exit"}

C11_State ==
    /\ (ret = "nil" /\ PastPreparation) =>
            /\ SummaryWritten
            /\ ErrorsWritten <=> failures # {}
    /\ ErrorsWritten => (SummaryWritten /\ failures # {} /\ errorsTxt.written)
    /\ (ret = "err" /\ PastPreparation) => ~ErrorsWritten
    /\ SummaryWritten => NoCopyRunning
    /\ (SummaryWritten /\ observed = 0) => AllAttempted

C11_Step == SummaryWritten => (copies' = copies /\ failures' = failures /\ SummaryWritten')

C12_WriteFailureRecoverable ==
    (pc = "returned" /\ PastPreparation /\ observed = 0) =>
        /\ AllAttempted
        /\ successCount + failedCount = nfiles
        /\ failedCount = Len(errors)

(***************************************************************************)
(* Claim about repeated classification (checked under SpecFilter)          *)
(***************************************************************************)
C20_State ==
    previous # <<>> =>
        /\ SubSeq(previous[1].jsonFiles, 1, fi) = jsonFiles
        /\ fi = Len(changes) =>
                /\ result = previous[1].result
                /\ jsonFiles = previous[1].jsonFiles

C20_Step ==
    /\ changes' = changes
    /\ errors' = errors
    /\ failedCount' = failedCount
    /\ fopts' = fopts
    /\ provider' = provider

ReportLines(errs) == [k \in 1..Len(errs) |-> <<ErrorLine(errs[k])>>]

C15_State ==
    /\ Lines(errorString(errors)) = ReportLines(errors)
    /\ errorString(errors) # <<>> => errorString(errors)[Len(errorString(errors))] # "\n"
    /\ HasErrors <=> ErrorCount > 0
    /\ ErrorCount = Cardinality(failures)
    /\ \A f \in failures : Cardinality({k \in 1..Len(errors) : errors[k] = f}) = 1
    /\ errorsTxt.written => errorsTxt.text = errorString(errors)

\* Every step that records failures appends them to the errors recorded
\* before, one for each file that failed in the step.
C15_Step ==
    /\ Len(errors') >= Len(errors)
    /\ SubSeq(errors', 1, Len(errors)) = errors
    /\ Len(errors') - Len(errors) = Cardinality(failures' \ failures)
    /\ \A k \in (Len(errors) + 1)..Len(errors') : errors'[k] \in failures' \ failures

\* C15: the error report has exactly one line for each recorded failure,
\* in the order of the AddError calls (not sorted, none dropped, none
\* twice), the lines separated by one newline and no newline at the end;
\* HasErrors is true iff ErrorCount > 0, and ErrorCount is the number of
\* AddError calls made so far.
C15_ErrorReport == []C15_State /\ [][C15_Step]_vars

C15_Witness ==
    /\ errors = <<2, 1>>
    /\ errorsTxt.written
    /\ errorsTxt.text = <<Name(2), "\n", Name(1)>>
    /\ "errors.txt" \in root.entries

SequentialTree == prep = "ok" /\ ~opts.Concurrent

C16_State ==
    SequentialTree =>
        /\ successCount + failedCount = idx
        /\ \A f \in Files : copies[f] = IF f <= idx THEN 1 ELSE 0
        /\ \A k \in 1..Len(errors) : errors[k] <= idx
        /\ \A j, k \in 1..Len(errors) : j < k => errors[j] < errors[k]
        /\ progress = idx + 1

C16_Step ==
    (SequentialTree /\ copies' # copies) =>
        /\ idx' = idx + 1
        /\ copies' = [copies EXCEPT ![idx + 1] = 1]
        /\ successCount' + failedCount' = idx'
        /\ progress' = progress + 1

\* C16: copySequential handles the files in the order of the export set,
\* one at a time: file i+1 is started only when files 1..i are finished
\* and counted, failures are recorded in that order, and printProgress is
\* called after every file.
C16_SequentialOrder == []C16_State /\ [][C16_Step]_vars

C16_Witness ==
    /\ SequentialTree
    /\ pc = "summary"
    /\ nfiles = 2
    /\ errors = <<1, 2>>
    /\ progress = 3

AllWorkersReturned == \A w \in Workers : wpc[w] \in {"idle", "exit"}

C17_State ==
    prep = "ok" =>
        /\ (pc \in {"summary", "errorsTxt"} \/ SummaryWritten \/ errorsTxt.written) =>
                /\ AllWorkersReturned
                /\ opts.Concurrent => \A w \in Workers : wpc[w] = "exit"
                /\ ~opts.Concurrent => idx = nfiles
        /\ errorsTxt.written =>
                /\ errorsTxt.text = errorString(errors)
                /\ \A f \in failures :
                        \E k \in 1..Len(Lines(errorsTxt.text)) :
                            Lines(errorsTxt.text)[k] = <<ErrorLine(f)>>

C17_Step ==
    (prep = "ok" /\ pc \in {"summary", "errorsTxt", "returned"}) =>
        (errors' = errors /\ failures' = failures /\ wpc' = wpc)

\* C17: runExport writes summary.txt and errors.txt only after
\* copySequential / copyConcurrent has returned, that is after every
\* worker has returned; nothing is recorded afterwards, so errors.txt
\* holds a line for every failure recorded during the run.
C17_FinalizedAfterWorkers == []C17_State /\ [][C17_Step]_vars

C17_Witness ==
    /\ prep = "ok"
    /\ opts.Concurrent
    /\ ret = "nil"
    /\ nfiles = 2
    /\ failures = {1, 2}
    /\ errorsTxt.written
    /\ Len(Lines(errorsTxt.text)) = 2

(***************************************************************************)
(* Claims about Export (checked under SpecExport)                          *)
(***************************************************************************)
Valid == repo.IsGitRepository /\ repo.HasCommits /\ repo.FromCommit /\ repo.ToCommit

\* The error of the first check that fails, in the order repository,
\* commits, from-revision, to-revision.
PreflightError ==
    CASE ~repo.IsGitRepository -> "not a git repository"
      [] repo.IsGitRepository /\ ~repo.HasCommits -> "repository has no commits"
      [] repo.IsGitRepository /\ repo.HasCommits /\ ~repo.FromCommit -> "invalid from-commit"
      [] OTHER -> "invalid to-commit"

Called(name) == \E k \in 1..Len(clientCalls) : clientCalls[k] = name

\* No provider content was fetched or tested, by the filter or by a copy.
NothingFetched ==
    /\ calls = <<>>
    /\ fi = 0
    /\ \A f \in DOMAIN copies : copies[f] = 0

\* No sink was created, cleared or written.
NoSinkTouched ==
    /\ root = root0
    /\ prep = "none"
    /\ ~archive.created
    /\ archive.entries = <<>>
    /\ ~manifest.generated
    /\ ~errorsTxt.written

\* C18: when the directory is no repository, the repository has no
\* commits, the from-revision or the to-revision is invalid, Export returns
\* the error of the first of these checks that fails, and it has neither
\* called GetChangedFiles, nor fetched any content, nor created, cleared
\* or written any sink.
C18_FatalPreflight ==
    ~Valid =>
        /\ ~Called("GetChangedFiles")
        /\ changes = <<>>
        /\ NothingFetched
        /\ NoSinkTouched
        /\ pc \in {"Export", "returned", "killed"}
        /\ pc = "returned" => ret = PreflightError
        /\ \A k \in 1..Len(clientCalls) :
                clientCalls[k] = <<"IsGitRepository", "HasCommits", "ValidateCommit(from)",
                                   "ValidateCommit(to)">>[k]

C18_Witness ==
    /\ repo.IsGitRepository
    /\ repo.HasCommits
    /\ ~repo.FromCommit
    /\ ~repo.ToCommit
    /\ pc = "returned"
    /\ ret = "invalid from-commit"
    /\ clientCalls = <<"IsGitRepository", "HasCommits", "ValidateCommit(from)">>
    /\ root.entries = {"old.txt"}

\* The export set filterAndProcess returns for the diff of the repository.
ExportSetOf(cs) == SelectSeq(cs, LAMBDA c : classify(c).Reason = "")

Diffed == Valid /\ ~repo.GetChangedFiles.err

EmptyRun == Diffed /\ ExportSetOf(repo.GetChangedFiles.changes) = <<>>

NonEmptyRun == Diffed /\ ExportSetOf(repo.GetChangedFiles.changes) # <<>>

\* PrepareOutputDir was called, or the creation of the archive file tried.
SinkPrepared ==
    \/ prep # "none"
    \/ archive.created
    \/ opts.ArchivePath # <<>> /\ ret = "err"

EmptyRunOutcome ==
    EmptyRun =>
        /\ NoSinkTouched
        /\ \A f \in DOMAIN copies : copies[f] = 0
        /\ pc = "returned" => ret = "nil"
        /\ pc \in {"Export", "GetChangedFiles", "filterAndProcess", "returned", "killed"}

\* C19 as stated: every run with a non-empty export set prepares the sink.
C19_Original ==
    /\ EmptyRunOutcome
    /\ (NonEmptyRun /\ pc = "returned") => SinkPrepared

\* C19 amended: a run whose change list or export set is empty returns nil
\* and prepares, clears and writes no sink; every run with a non-empty
\* export set that is not a preview prepares the sink; a preview with a
\* non-empty export set returns nil and touches no sink either.
C19_EmptyExportSet ==
    /\ EmptyRunOutcome
    /\ (NonEmptyRun /\ pc = "returned" /\ ~opts.Preview) => SinkPrepared
    /\ (NonEmptyRun /\ opts.Preview) => NoSinkTouched
    /\ (NonEmptyRun /\ opts.Preview /\ pc = "returned") => ret = "nil"

C19_Witness ==
    /\ EmptyRun
    /\ Len(changes) = 2
    /\ fi = 2
    /\ pc = "returned"
    /\ ret = "nil"
    /\ opts.Overwrite
    /\ ~opts.Preview
    /\ root = Dir("dir", {"old.txt"})

InSink(name) ==
    \/ name \in root.entries
    \/ \E k \in 1..Len(archive.entries) : archive.entries[k] = name

Headers == {HeaderNew, HeaderModified, HeaderRenamed, HeaderDeleted}

\* The text has the line below the header, in the header's section.
InSection(text, header, line) ==
    LET ls == Lines(text)
    IN \E h, k \in 1..Len(ls) :
        /\ h < k
        /\ ls[h] = header
        /\ ls[k] = line
        /\ \A j \in (h + 1)..k : ls[j] \notin Headers

\* The manifest line of a file of the export set: its path under "new
\* files:" or "modified:", and for a renamed or copied file its path with
\* the previous path under "renamed:".
HasManifestLine(c) ==
    CASE c.Status = StatusAdded -> InSection(manifest.text, HeaderNew, <<"-", " ">> \o c.Path)
      [] c.Status = StatusModified -> InSection(manifest.text, HeaderModified, <<"-", " ">> \o c.Path)
      [] OTHER -> InSection(manifest.text, HeaderRenamed, <<"-", " ">> \o Previously(c))

\* C13 as stated: after an export without failure every file of the export
\* set is an entry of the sink and has its line in the manifest, in the
\* section of its status, a copied file in the renamed section.
C13_RoundTrip ==
    (pc = "returned" /\ ret = "nil" /\ ~opts.Preview /\ failures = {}) =>
        \A f \in 1..Len(result) :
            /\ InSink(Name(f))
            /\ HasManifestLine(result[f])

(***************************************************************************)
(* Claims about the provider calls of the classification (SpecFilter)      *)
(***************************************************************************)
\* C21: while classifying, GetFileContent is called for a change exactly
\* when MaxSize > 0 and the change passed the deleted, copyable-status,
\* include, ignore and outside-root checks; a change skipped by one of
\* those rules is never fetched, and with MaxSize = 0 nothing is fetched.
C21_FetchOnlyForSizeCheck ==
    /\ Len(calls) = fi
    /\ \A i \in Consumed :
        /\ calls[i].probed <=> (fopts.MaxSize > 0 /\ PassedOtherChecks(changes[i]))
        /\ jsonFiles[i].Reason \in {"deleted", "not copyable", "not included", "ignored",
                                    "outside repo"} => ~calls[i].probed
    /\ fopts.MaxSize = 0 => \A i \in Consumed : ~calls[i].probed

C21_Witness ==
    /\ FilterDone
    /\ Len(changes) = 2
    /\ fopts.MaxSize > 0
    /\ jsonFiles[1].Reason = "ignored"
    /\ ~calls[1].probed
    /\ HasLength(changes[1]) /\ Length(changes[1]) > fopts.MaxSize
    /\ jsonFiles[2].Reason = "too large"
    /\ calls[2].probed

(***************************************************************************)
(* Claim about a failed size probe (checked under SpecExport)              *)
(***************************************************************************)
\* The size probe of the i-th change was made and failed.
ProbeFailed(i) == calls[i].probed /\ GetFileContent(changes[i].Path).err

\* File f of the export set is one whose size probe failed.
Unreadable(f) ==
    \E i \in 1..Len(calls) : changes[i] = result[f] /\ ProbeFailed(i)

Records(f) == Cardinality({k \in 1..Len(errors) : errors[k] = f})

\* CopyFile, or the fetch of the archive loop, was called for f and returned.
Processed(f) ==
    /\ f \in DOMAIN copies
    /\ copies[f] >= 1
    /\ \A w \in Workers : wfile[w] # f

\* C22: a size probe whose content fetch fails raises no error and records
\* no failure during classification, and the file is put in the export
\* set; when the transfer engine then processes the file, the read failure
\* is recorded as a failure of that path, exactly once.
C22_ProbeFailureSurfacesInTransfer ==
    /\ pc = "filterAndProcess" => (errors = <<>> /\ failedCount = 0 /\ ret = "none")
    /\ \A i \in 1..Len(calls) :
            ProbeFailed(i) => (jsonFiles[i].Reason = "" /\ InResult(changes[i]))
    /\ \A f \in 1..Len(result) :
            Unreadable(f) =>
                /\ Records(f) <= 1
                /\ Processed(f) => (Records(f) = 1 /\ f \in failures /\ ~InSink(Name(f)))
    /\ (ret = "nil" /\ ~opts.Preview /\ observed = 0) =>
            \A f \in 1..Len(result) : Unreadable(f) => Records(f) = 1

C22_Witness ==
    /\ ret = "nil"
    /\ prep = "ok"
    /\ fopts.MaxSize > 0
    /\ Len(result) = 1
    /\ calls[1].probed
    /\ Unreadable(1)
    /\ errors = <<1>>
    /\ failedCount = 1
    /\ errorsTxt.written

(***************************************************************************)
(* cli.ParseSize.  An int64 is kept as seven base-1024 digits, the least   *)
(* significant first; the seventh holds bits 60..63, so it is below 16 and *)
(* the number is negative when it is 8 or more.  A natural number of any   *)
(* size is kept as twelve such digits.                                     *)
(***************************************************************************)

Digits == {"0", "1", "2", "3", "4", "5", "6", "7", "8", "9"}

DigitValue(ch) ==
    CASE ch = "0" -> 0 [] ch = "1" -> 1 [] ch = "2" -> 2 [] ch = "3" -> 3 [] ch = "4" -> 4
      [] ch = "5" -> 5 [] ch = "6" -> 6 [] ch = "7" -> 7 [] ch = "8" -> 8 [] ch = "9" -> 9

RECURSIVE Zeros(_)
Zeros(k) == IF k = 0 THEN <<>> ELSE <<0>> \o Zeros(k - 1)

RECURSIVE TimesTenFrom(_, _, _)
\* the digits of n * 10 + d from digit i on, carry being what is carried into digit i
TimesTenFrom(n, carry, i) ==
    IF i > Len(n) THEN <<>>
    ELSE <<(n[i] * 10 + carry) % 1024>> \o TimesTenFrom(n, (n[i] * 10 + carry) \div 1024, i + 1)

TimesTenPlus(n, d) == TimesTenFrom(n, d, 1)

RECURSIVE DecimalFrom(_, _, _)
DecimalFrom(str, i, n) ==
    IF i > Len(str) THEN n ELSE DecimalFrom(str, i + 1, TimesTenPlus(n, DigitValue(str[i])))

\* the number a string of decimal digits denotes
Decimal(str) == DecimalFrom(str, 1, Zeros(12))

\* n * 1024^k
Shift(n, k) == SubSeq(Zeros(k) \o n, 1, 12)

\* the int64 holding the low 64 bits of n
Wrap(n) == SubSeq(n, 1, 6) \o <<n[7] % 16>>

Widen(x) == x \o Zeros(5)

Negative(x) == x[7] >= 8

\* n fits no int64: n >= 2^63
OutOfRange(n) == n[7] >= 8 \/ \E i \in 8..12 : n[i] # 0

\* strconv.ParseInt(numStr, 10, 64) of a string of digits and dots
ParseInt(numStr) ==
    IF \E i \in DOMAIN numStr : numStr[i] = "."
        THEN [err |-> TRUE, value |-> <<>>]
    ELSE IF OutOfRange(Decimal(numStr))
        THEN [err |-> TRUE, value |-> <<>>]
    ELSE [err |-> FALSE, value |-> Wrap(Decimal(numStr))]

\* num * multiplier in int64
Times(x, k) == Wrap(Shift(Widen(x), k))

UpperChar(ch) ==
    CASE ch = "b" -> "B"
      [] ch = "k" -> "K"
      [] ch = "m" -> "M"
      [] ch = "g" -> "G"
      [] ch = "t" -> "T"
      [] ch = "x" -> "X"
      [] OTHER -> ch

ToUpper(str) == [i \in DOMAIN str |-> UpperChar(str[i])]

RECURSIVE TrimLeft(_)
TrimLeft(str) == IF str # <<>> /\ str[1] = " " THEN TrimLeft(Tail(str)) ELSE str

RECURSIVE TrimRight(_)
TrimRight(str) ==
    IF str # <<>> /\ str[Len(str)] = " " THEN TrimRight(SubSeq(str, 1, Len(str) - 1)) ELSE str

TrimSpace(str) == TrimRight(TrimLeft(str))

RECURSIVE NumericEnd(_, _)
\* for i < len(s) && (s[i] >= '0' && s[i] <= '9' || s[i] == '.') { i++ }
NumericEnd(str, i) ==
    IF i < Len(str) /\ (str[i + 1] \in Digits \/ str[i + 1] = ".") THEN NumericEnd(str, i + 1) ELSE i

\* the switch on the suffix: the power of 1024 the multiplier is, -1 for default
Multiplier(suffix) ==
    CASE suffix \in {<<>>, <<"B">>} -> 0
      [] suffix \in {<<"K">>, <<"K", "B">>} -> 1
      [] suffix \in {<<"M">>, <<"M", "B">>} -> 2
      [] suffix \in {<<"G">>, <<"G", "B">>} -> 3
      [] suffix \in {<<"T">>, <<"T", "B">>} -> 4
      [] OTHER -> -1

SizeError(err) == [called |-> TRUE, err |-> err, value |-> <<>>]

ParseSize(str) ==
    LET s == ToUpper(TrimSpace(str))
        i == NumericEnd(s, 0)
        numStr == SubSeq(s, 1, i)
        suffix == SubSeq(s, i + 1, Len(s))
        num == ParseInt(numStr)
    IN  IF TrimSpace(str) = <<>> THEN SizeError("empty size string")
        ELSE IF i = 0 THEN SizeError("invalid size")
        ELSE IF num.err THEN SizeError("invalid size number")
        ELSE IF Negative(num.value) THEN SizeError("size cannot be negative")
        ELSE IF Multiplier(suffix) = -1 THEN SizeError("unknown size suffix")
        ELSE [called |-> TRUE, err |-> "nil", value |-> Times(num.value, Multiplier(suffix))]

\* The numbers given: small ones, the largest int64 and its successor, and
\* the numbers about 2^63 / 1024^k.
Numerals ==
    {<<>>, <<"0">>, <<"1">>, <<"1", "0">>, <<"5", "0", "0">>, <<"1", ".", "5">>, <<"-", "1">>,
     <<"8", "3", "8", "8", "6", "0", "7">>,
     <<"8", "3", "8", "8", "6", "0", "8">>,
     <<"8", "5", "8", "9", "9", "3", "4", "5", "9", "1">>,
     <<"8", "5", "8", "9", "9", "3", "4", "5", "9", "2">>,
     <<"9", "2", "2", "3", "3", "7", "2", "0", "3", "6", "8", "5", "4", "7", "7", "5", "8", "0", "7">>,
     <<"9", "2", "2", "3", "3", "7", "2", "0", "3", "6", "8", "5", "4", "7", "7", "5", "8", "0", "8">>}

Suffixes ==
    {<<>>, <<"B">>, <<"K">>, <<"K", "B">>, <<"M">>, <<"M", "B">>, <<"G">>, <<"G", "B">>,
     <<"T">>, <<"T", "B">>, <<"k", "b">>, <<"m">>, <<"t", "b">>, <<"X">>, <<"K", "X">>, <<" ", "K">>}

Paddings == {<<>>, <<" ">>}

SizeStrings == {l \o n \o x \o r : l \in Paddings, n \in Numerals, x \in Suffixes, r \in Paddings}

parseSize ==
    /\ cpc = "ParseSize"
    /\ sizeOut' = ParseSize(sizeIn)
    /\ cpc' = "returned"
    /\ UNCHANGED <<fvars, evars, xvars, tvars, args, config, sizeIn>>

InitSize ==
    /\ FIdle
    /\ EIdle
    /\ XIdle
    /\ args = NoArgs
    /\ config = NoConfig
    /\ cpc = "ParseSize"
    /\ TIdle
    /\ sizeIn \in SizeStrings
    /\ sizeOut = NotParsed

NextSize == parseSize

SpecSize == InitSize /\ [][NextSize]_vars

\* The input is digits followed by one of the suffixes, in any case, with
\* spaces around it.
Trimmed == ToUpper(TrimSpace(sizeIn))

DigitsOf == SubSeq(Trimmed, 1, NumericEnd(Trimmed, 0))

SuffixOf == SubSeq(Trimmed, NumericEnd(Trimmed, 0) + 1, Len(Trimmed))

DigitsThenSuffix ==
    /\ DigitsOf # <<>>
    /\ \A i \in DOMAIN DigitsOf : DigitsOf[i] \in Digits
    /\ Multiplier(SuffixOf) # -1

\* digits x 1024^k, as a natural number
Product == Shift(Decimal(DigitsOf), Multiplier(SuffixOf))

Accepted == sizeOut.called /\ sizeOut.err = "nil"

\* C27: an accepted input <digits><suffix> gives exactly digits x 1024^k,
\* which is not negative; an empty string, a string without leading digits,
\* an unknown suffix and a negative number give an error.
C27_ParseSize ==
    sizeOut.called =>
        /\ Accepted =>
            /\ DigitsThenSuffix
            /\ Widen(sizeOut.value) = Product
            /\ ~Negative(sizeOut.value)
        /\ Trimmed = <<>> => sizeOut.err # "nil"
        /\ (Trimmed # <<>> /\ Trimmed[1] \notin Digits) => sizeOut.err # "nil"
        /\ (DigitsOf # <<>> /\ Multiplier(SuffixOf) = -1) => sizeOut.err # "nil"
        /\ (Trimmed # <<>> /\ Trimmed[1] = "-") => sizeOut.err # "nil"

\* The same for the inputs whose product is below 2^63.
C27_InRange ==
    (sizeOut.called /\ (DigitsThenSuffix => ~OutOfRange(Product))) => C27_ParseSize

C27_Overflow ==
    /\ Accepted
    /\ DigitsThenSuffix
    /\ OutOfRange(Product)
    /\ Negative(sizeOut.value)

(***************************************************************************)
(* cli.Parse and main: the command line becomes the Options of the run     *)
(***************************************************************************)
\* validation.ValidatePath of a path without null bytes and "..": the empty
\* path and a rooted path are errors.
ValidatePath(path) == path = <<>> \/ path[1] = "/"

\* validExt
ValidExt(path) ==
    \/ HasSuffix(ToLower(path), <<".", "z", "i", "p">>)
    \/ HasSuffix(ToLower(path), <<".", "t", "a", "r">>)
    \/ HasSuffix(ToLower(path), <<".", "t", "a", "r", ".", "g", "z">>)
    \/ HasSuffix(ToLower(path), <<".", "t", "g", "z">>)

\* An int64 as a number of the model: its sign, and its value as far as it
\* is compared with the length of a file's content.
Int64ToInt(x) ==
    IF Negative(x) THEN -1
    ELSE IF \E i \in 2..7 : x[i] # 0 THEN 1024
    ELSE x[1]

ParseError(err) == [NoConfig EXCEPT !.err = err]

ParseBothDestinations(a) ==
    IF a.output # <<>> /\ ValidatePath(a.output) THEN ParseError("invalid output directory")
    ELSE IF a.maxSize # <<>> /\ ParseSize(a.maxSize).err # "nil" THEN ParseError("invalid max-size")
    ELSE IF a.archive # <<>> /\ ValidatePath(a.archive) THEN ParseError("invalid archive path")
    ELSE IF a.archive # <<>> /\ ~ValidExt(a.archive) THEN ParseError("unsupported archive format")
    ELSE [err |-> "nil", OutputDir |-> a.output, ArchivePath |-> a.archive,
          Preview |-> a.output = <<>> /\ a.archive = <<>>,
          MaxSize |-> IF a.maxSize = <<>> THEN 0 ELSE Int64ToInt(ParseSize(a.maxSize).value)]

ParseAnySuffix(a) ==
    IF a.output # <<>> /\ ValidatePath(a.output) THEN ParseError("invalid output directory")
    ELSE IF a.maxSize # <<>> /\ ParseSize(a.maxSize).err # "nil" THEN ParseError("invalid max-size")
    ELSE IF a.archive # <<>> /\ a.output # <<>> THEN ParseError("cannot use both --output and --archive")
    ELSE IF a.archive # <<>> /\ ValidatePath(a.archive) THEN ParseError("invalid archive path")
    ELSE [err |-> "nil", OutputDir |-> a.output, ArchivePath |-> a.archive,
          Preview |-> a.output = <<>> /\ a.archive = <<>>,
          MaxSize |-> IF a.maxSize = <<>> THEN 0 ELSE Int64ToInt(ParseSize(a.maxSize).value)]

\* Parse of a command line without -i and -I: the first error, or the Config.
ParseArgs(a) ==
    IF a.output # <<>> /\ ValidatePath(a.output) THEN ParseError("invalid output directory")
    ELSE IF a.maxSize # <<>> /\ ParseSize(a.maxSize).err # "nil" THEN ParseError("invalid max-size")
    ELSE IF a.archive # <<>> /\ a.output # <<>> THEN ParseError("cannot use both --output and --archive")
    ELSE IF a.archive # <<>> /\ ValidatePath(a.archive) THEN ParseError("invalid archive path")
    ELSE IF a.archive # <<>> /\ ~ValidExt(a.archive) THEN ParseError("unsupported archive format")
    ELSE [err |-> "nil", OutputDir |-> a.output, ArchivePath |-> a.archive,
          Preview |-> a.output = <<>> /\ a.archive = <<>>,
          MaxSize |-> IF a.maxSize = <<>> THEN 0 ELSE Int64ToInt(ParseSize(a.maxSize).value)]

\* config, err := cli.Parse(os.Args[1:])
Parse ==
    /\ cpc = "Parse"
    /\ pc # "killed"
    /\ config' = ParseArgs(args)
    /\ cpc' = "main"
    /\ UNCHANGED <<fvars, evars, xvars, tvars, args, sizeIn, sizeOut>>

\* shouldUseTUIWithOverride
shouldUseTUI(a, c) ==
    IF a.noTUI THEN FALSE
    ELSE IF ~a.tty THEN FALSE
    ELSE IF a.from /\ (c.OutputDir # <<>> \/ c.ArchivePath # <<>>) THEN FALSE
    ELSE TRUE

\* main after Parse: exit on an error, the TUI, or Export with the Options
\* built from the Config.
main ==
    /\ cpc = "main"
    /\ pc # "killed"
    /\ IF config.err # "nil" \/ ~repo.IsGitRepository
        THEN /\ cpc' = "exit"
             /\ UNCHANGED <<opts, fopts, pc>>
        ELSE IF shouldUseTUI(args, config)
        THEN /\ cpc' = "tui"
             /\ UNCHANGED <<opts, fopts, pc>>
        ELSE IF ~args.from
        THEN /\ cpc' = "exit"
             /\ UNCHANGED <<opts, fopts, pc>>
        ELSE /\ cpc' = "Export"
             /\ opts' = [Preview |-> config.Preview, ArchivePath |-> config.ArchivePath,
                         Concurrent |-> args.concurrent, Overwrite |-> FALSE]
             /\ fopts' = [IncludePatterns |-> <<>>, IgnorePatterns |-> <<>>,
                          MaxSize |-> config.MaxSize]
             /\ pc' = "Export"
    /\ UNCHANGED <<changes, fi, result, jsonFiles, provider, calls, previous, xvars, tvars, args,
                   config, sizeIn, sizeOut, nfiles, root0, root, prep, ret, idx, successCount,
                   failedCount, errors, copies, archive, inWriter, fileCh, closed, sent, wpc,
                   wfile, notified, signalCh, signals, observed, failures, progress, errorsTxt>>

ArchUpper == <<"E", ".", "T", "A", "R", ".", "G", "Z">>
ArchGz == <<"e", ".", "g", "z">>
ArchBare == <<"z", "i", "p">>
ArchRooted == <<"/", "e", ".", "z", "i", "p">>
ArchTarZip == <<"e", ".", "t", "a", "r", ".", "z", "i", "p">>

CliArchives == ArchivePaths \cup {ArchUpper, ArchGz, ArchBare, ArchRooted, ArchTarZip}

CliOutputs == {<<>>, <<"o", "u", "t">>, <<"/", "o", "u", "t">>}

CliSizes == {<<>>, <<"2">>, <<"2", "X">>}

CliArgs ==
    [from : BOOLEAN, output : CliOutputs, archive : CliArchives, maxSize : CliSizes,
     concurrent : BOOLEAN, noTUI : BOOLEAN, tty : BOOLEAN]

\* The diff of the repository main runs in: two added files.
CliRepo ==
    [NoRepo EXCEPT !.GetChangedFiles =
        [err |-> FALSE, changes |-> <<FileChange(StatusAdded, PathA), FileChange(StatusAdded, PathDA)>>]]

CliAnswers ==
    {NoAnswer, [outside |-> FALSE, content |-> [err |-> FALSE, len |-> MaxLen]]}

InitCli ==
    /\ EIdle
    /\ changes = <<>>
    /\ fopts = [IncludePatterns |-> <<>>, IgnorePatterns |-> <<>>, MaxSize |-> 0]
    /\ provider \in [Paths -> CliAnswers]
    /\ fi = 0
    /\ result = <<>>
    /\ jsonFiles = <<>>
    /\ calls = <<>>
    /\ previous = <<>>
    /\ repo = CliRepo
    /\ clientCalls = <<>>
    /\ manifest = NotGenerated
    /\ args \in CliArgs
    /\ config = NoConfig
    /\ cpc = "Parse"
    /\ TIdle
    /\ sizeIn = <<>>
    /\ sizeOut = NotParsed

NextCli ==
    \/ Parse
    \/ main
    \/ NextExport

SpecCli == InitCli /\ [][NextCli]_vars

(***************************************************************************)
(* Claims about the destination of a run (checked under SpecCli)           *)
(***************************************************************************)
Parsed == cpc \in {"main", "exit", "tui", "Export"}

EndsIn(path, suffix) == HasSuffix(ToLower(path), suffix)

DotZip == <<".", "z", "i", "p">>
DotTar == <<".", "t", "a", "r">>
DotTarGz == <<".", "t", "a", "r", ".", "g", "z">>
DotTgz == <<".", "t", "g", "z">>

Supported(path) == \E suffix \in {DotZip, DotTar, DotTarGz, DotTgz} : EndsIn(path, suffix)

\* C23: the archive written has the format its path's suffix names, in any
\* case: .zip a ZIP archive, .tar.gz and .tgz a gzip-compressed tar, .tar an
\* uncompressed tar; Parse rejects an archive path with any other suffix, as
\* an unsupported format when nothing else is wrong with the command line.
C23_FormatBySuffix ==
    /\ archive.created =>
        /\ Supported(opts.ArchivePath)
        /\ EndsIn(opts.ArchivePath, DotZip) => archive.format = "zip"
        /\ (EndsIn(opts.ArchivePath, DotTarGz) \/ EndsIn(opts.ArchivePath, DotTgz))
                => archive.format = "tar.gz"
        /\ EndsIn(opts.ArchivePath, DotTar) => archive.format = "tar"
    /\ (Parsed /\ args.archive # <<>> /\ ~Supported(args.archive)) =>
        /\ config.err # "nil"
        /\ (args.output = <<>> /\ args.archive[1] # "/" /\ args.maxSize \in {<<>>, <<"2">>})
                => config.err = "unsupported archive format"
    /\ (Parsed /\ Supported(args.archive) /\ args.output = <<>> /\ args.archive[1] # "/"
            /\ args.maxSize \in {<<>>, <<"2">>})
                => config.err = "nil" /\ config.ArchivePath = args.archive

C23_Witness ==
    /\ archive.created
    /\ opts.ArchivePath = ArchUpper
    /\ archive.format = "tar.gz"
    /\ args.archive = ArchUpper

\* C24: Parse gives an error for a command line with both an output
\* directory and an archive path, so a run has one destination; ExportFiles
\* takes one branch only, the preview before the archive before the
\* directory, and a preview creates no file, directory or archive.
C24_State ==
    /\ (Parsed /\ args.output # <<>> /\ args.archive # <<>>) => config.err # "nil"
    /\ cpc = "Export" =>
        /\ Cardinality({k \in {"preview", "archive", "directory"} :
                            \/ k = "preview" /\ config.Preview
                            \/ k = "archive" /\ config.ArchivePath # <<>>
                            \/ k = "directory" /\ config.OutputDir # <<>>}) = 1
        /\ opts.Preview =>
            /\ ~archive.created /\ archive.entries = <<>>
            /\ prep = "none" /\ root = root0
            /\ ~manifest.generated /\ ~errorsTxt.written
            /\ \A f \in DOMAIN copies : copies[f] = 0
        /\ (~opts.Preview /\ opts.ArchivePath # <<>>) => prep = "none" /\ root = root0
        /\ (~opts.Preview /\ opts.ArchivePath = <<>>) => ~archive.created

C24_Step ==
    (pc = "ExportFiles" /\ pc' # pc /\ pc' # "killed") =>
        /\ opts.Preview => pc' = "preview"
        /\ (~opts.Preview /\ opts.ArchivePath # <<>>) => pc' = "archiveCreate"
        /\ (~opts.Preview /\ opts.ArchivePath = <<>>) => pc' = "prepare"

C24_OneDestination == []C24_State /\ [][C24_Step]_vars

C24_Witness ==
    /\ cpc = "Export"
    /\ opts.Preview
    /\ nfiles > 0
    /\ pc = "returned"
    /\ ret = "nil"

(***************************************************************************)
(* copyConcurrent with more files than workers and than the queue holds    *)
(***************************************************************************)
PoolPath(f) == <<"p", ToString(f)>>

\* An export set of n added files.
PoolResult(n) == [f \in 1..n |-> FileChange(StatusAdded, PoolPath(f))]

\* One file more than there are workers; two more than the queue holds.
PoolSizes == {numWorkers + 1, bufferSize + 2}

\* runExport has prepared the directory and calls copyConcurrent.  The
\* contents cannot be read, so every CopyFile fails at its first step.
\* With the larger export set, all workers but the first have returned on
\* a signal each before the first file was sent.
InitPool ==
    /\ UIdle
    /\ XIdle
    /\ nfiles \in PoolSizes
    /\ changes = PoolResult(nfiles)
    /\ fopts = [IncludePatterns |-> <<>>, IgnorePatterns |-> <<>>, MaxSize |-> 0]
    /\ provider = [p \in {PoolPath(f) : f \in 1..nfiles} |-> NoAnswer]
    /\ fi = nfiles
    /\ result = changes
    /\ jsonFiles = <<>>
    /\ calls = <<>>
    /\ previous = <<>>
    /\ opts = [Preview |-> FALSE, ArchivePath |-> <<>>, Concurrent |-> TRUE, Overwrite |-> FALSE]
    /\ root0 = Dir("absent", {})
    /\ root = Dir("dir", {})
    /\ prep = "ok"
    /\ ret = "none"
    /\ idx = 0
    /\ successCount = 0
    /\ failedCount = 0
    /\ errors = <<>>
    /\ copies = [f \in 1..nfiles |-> 0]
    /\ archive = [created |-> FALSE, format |-> "none", entries |-> <<>>]
    /\ inWriter = {}
    /\ fileCh = <<>>
    /\ closed = FALSE
    /\ sent = 0
    /\ wfile = [w \in Workers |-> 0]
    /\ signalCh = 0
    /\ failures = {}
    /\ progress = 1
    /\ errorsTxt = NotWritten
    /\ IF nfiles = numWorkers + 1
        THEN /\ pc = "copyConcurrent"
             /\ notified = FALSE
             /\ wpc = [w \in Workers |-> "idle"]
             /\ signals = 0
             /\ observed = 0
        ELSE /\ pc = "wg.Wait"
             /\ notified = TRUE
             /\ wpc = [w \in Workers |-> IF w = 1 THEN "select" ELSE "exit"]
             /\ signals = numWorkers - 1
             /\ observed = numWorkers - 1

\* The transfer from there on, with no further signal.
NextPool ==
    \/ copyConcurrent
    \/ ProducerSend
    \/ ProducerClose
    \/ \E w \in Workers : WorkerReceive(w)
    \/ \E w \in Workers : WorkerClosed(w)
    \/ \E w \in Workers : WorkerCopy(w)
    \/ wgWait

SpecPool == InitPool /\ [][NextPool]_vars

(***************************************************************************)
(* Claims about the parallel transfer                                      *)
(***************************************************************************)
\* the files a worker has received and not yet tallied
Copying == {wfile[w] : w \in {v \in Workers : wpc[v] = "CopyFile"}}

Received == sent - Len(fileCh)

C25_State ==
    /\ Cardinality(Copying) <= numWorkers
    /\ notified => Received - (successCount + failedCount) = Cardinality(Copying)
    /\ Len(fileCh) <= bufferSize
    /\ sent <= nfiles
    /\ \A i \in DOMAIN fileCh : fileCh[i] = Received + i
    /\ closed => sent = nfiles

C25_Step ==
    /\ sent' \in {sent, sent + 1}
    /\ sent' = sent + 1 => ~closed /\ fileCh' = Append(fileCh, sent + 1)
    /\ sent' = sent => (fileCh' = fileCh \/ (fileCh # <<>> /\ fileCh' = Tail(fileCh)))
    /\ closed => closed' /\ sent' = sent
    /\ (closed' /\ ~closed) => sent = nfiles /\ sent' = sent

\* C25: at most numWorkers files are being copied and at most bufferSize
\* wait in the queue; the producer sends the files of the export set once
\* each, in their order, and closes the queue once, after the last.
C25_BoundedParallelism == []C25_State /\ [][C25_Step]_vars

C25_Witness ==
    /\ Len(fileCh) = bufferSize
    /\ sent < nfiles
    /\ Cardinality(Copying) = 1
    /\ fileCh[1] = 2

\* every worker copies while a file waits in the queue
C25_AllWorkersBusy ==
    /\ Cardinality(Copying) = numWorkers
    /\ fileCh # <<>>

\* a worker's CopyFile has returned and was tallied in this step
Tallied(w) == wpc[w] = "CopyFile" /\ wpc'[w] # "CopyFile"

C26_Step ==
    /\ Len(errors') >= Len(errors) /\ SubSeq(errors', 1, Len(errors)) = errors
    /\ \A w \in Workers :
        Tallied(w) =>
            \/ /\ wfile[w] \in failures'
               /\ errors' = Append(errors, wfile[w])
               /\ failedCount' = failedCount + 1
               /\ successCount' = successCount
            \/ /\ wfile[w] \notin failures'
               /\ errors' = errors
               /\ failedCount' = failedCount
               /\ successCount' = successCount + 1

C26_State ==
    (ConcurrentDone /\ observed = 0) =>
        /\ failedCount = Len(errors)
        /\ failedCount = Cardinality(failures)
        /\ {errors[k] : k \in DOMAIN errors} = failures

\* C26: whatever the order in which the workers finish, every tally adds
\* one to exactly one counter and every failure appends its one record
\* without disturbing the records already there; at the end of a parallel
\* transfer in which no worker left on a signal, failedCount is the number
\* of recorded errors and the number of files whose copy failed.
C26_NoLostUpdate == []C26_State /\ [][C26_Step]_vars

C26_Witness ==
    /\ ConcurrentDone
    /\ observed = 0
    /\ nfiles = 2
    /\ failedCount = 2
    /\ errors = <<2, 1>>
    /\ failures = {1, 2}

(***************************************************************************)
(* The TUI (internal/tui).  The Model is one record; Update's handlers are *)
(* operators from a Model to the Model and the command they return.  A     *)
(* command runs apart from Update and delivers its message later.          *)
(***************************************************************************)

stateBranchSelection == "stateBranchSelection"
stateCommitLimitSelection == "stateCommitLimitSelection"
stateCommitLimitCustom == "stateCommitLimitCustom"
stateFromCommit == "stateFromCommit"
stateToCommit == "stateToCommit"
stateCommitRangeSummary == "stateCommitRangeSummary"
stateFileSelection == "stateFileSelection"
stateOutputPath == "stateOutputPath"
stateConfirm == "stateConfirm"
stateProgress == "stateProgress"
stateDone == "stateDone"

concurrentThreshold == 100

defaultOutputPath == <<".", "/", "e", "x", "p", "o", "r", "t">>

\* A command as Update returns it: a method value bound to the Model of that moment.
Cmd(mm, name) == [name |-> name, fromCommit |-> mm.fromCommit, toCommit |-> mm.toCommit]

NoCmd == [name |-> "none", fromCommit |-> <<>>, toCommit |-> <<>>]

Quit == [name |-> "Quit", fromCommit |-> <<>>, toCommit |-> <<>>]

\* A failed type assertion or an index out of range ends the program.
Panic == [name |-> "panic", fromCommit |-> <<>>, toCommit |-> <<>>]

Result(mm, cmd) == [m |-> mm, cmd |-> cmd]

\* NewModel: the state follows from the pre-filled revisions; with GetCurrentBranch failing it
\* returns the zero Model and the error.
NewModel(a) ==
    IF a.branchErr THEN NoModel
    ELSE [NoModel EXCEPT
            !.state = IF a.from # <<>> /\ a.to # <<>> THEN stateCommitRangeSummary
                      ELSE IF a.from # <<>> THEN stateToCommit
                      ELSE stateCommitLimitSelection,
            !.fromCommit = a.from,
            !.toCommit = a.to,
            !.selectedBranch = a.branch]

\* Init: the first command.
ModelInit(mm) ==
    CASE mm.state = stateBranchSelection -> Cmd(mm, "loadBranchesCmd")
      [] mm.state = stateCommitLimitSelection -> Cmd(mm, "loadLimitOptionsCmd")
      [] mm.state = stateCommitRangeSummary -> Cmd(mm, "loadRangeStatsCmd")
      [] mm.state = stateToCommit -> Cmd(mm, "loadToCommitsCmd")
      [] mm.state = stateFileSelection -> Cmd(mm, "loadFilesCmd")
      [] OTHER -> Cmd(mm, "loadCommitsCmd")

RECURSIVE Identity(_)
\* The indices 0 .. n-1 in order.
Identity(n) == IF n = 0 THEN <<>> ELSE Identity(n - 1) \o <<n - 1>>

ensureFilterIdx(mm) ==
    IF mm.filteredNil /\ Len(mm.files) > 0
    THEN [mm EXCEPT !.filteredIdx = Identity(Len(mm.files)), !.filteredNil = FALSE]
    ELSE mm

\* strings.Contains
Contains(str, substr) ==
    \E i \in 0..(Len(str) - Len(substr)) : SubSeq(str, i + 1, i + Len(substr)) = substr

RECURSIVE Lower(_)
Lower(str) == IF str = <<>> THEN <<>> ELSE <<LowerChar(Head(str))>> \o Lower(Tail(str))

RECURSIVE MatchingFrom(_, _, _)
\* The indices from i of the files the query matches, in order.
MatchingFrom(files, query, i) ==
    IF i >= Len(files) THEN <<>>
    ELSE (IF \/ query = <<>>
             \/ Contains(Lower(files[i + 1].path), query)
             \/ Contains(Lower(<<files[i + 1].status>>), query)
          THEN <<i>> ELSE <<>>) \o MatchingFrom(files, query, i + 1)

\* A rebuildFilter that leaves the cursor where it was.
rebuildFilterUnclamped(mm) ==
    LET ix == MatchingFrom(mm.files, Lower(mm.filterInput), 0)
    IN  [mm EXCEPT !.filteredIdx = ix, !.filteredNil = mm.filteredNil /\ ix = <<>>]

rebuildFilter(mm) ==
    LET ix == MatchingFrom(mm.files, Lower(mm.filterInput), 0)
    IN  [mm EXCEPT
            !.filteredIdx = ix,
            !.filteredNil = mm.filteredNil /\ ix = <<>>,
            !.cursor = IF mm.cursor >= Len(ix)
                       THEN (IF Len(ix) - 1 > 0 THEN Len(ix) - 1 ELSE 0)
                       ELSE mm.cursor]

clearFilter(mm) == rebuildFilter([mm EXCEPT !.filterInput = <<>>])

moveCursor(mm, delta) ==
    LET n == Len(mm.filteredIdx)
    IN  IF n = 0 THEN [mm EXCEPT !.cursor = 0]
        ELSE [mm EXCEPT !.cursor = (mm.cursor + delta + n) % n]

getFromCommit(mm, sha, parent) ==
    IF ~mm.inclusiveMode
    THEN (IF HasSuffix(sha, <<"^">>) THEN SubSeq(sha, 1, Len(sha) - 1) ELSE sha)
    ELSE IF ~HasSuffix(mm.fromCommit, <<"^">>) /\ parent THEN sha \o <<"^">>
    ELSE sha

\* The keys that are runes.
Runes == {" ", "a", "n", "/", "c", "i"}

Keys == {"up", "down", "enter", "esc", "backspace", "ctrl+c"} \cup Runes

\* textinput.Update on a focused input: runes and backspace edit the text, and text is what the
\* edit leaves in the input; every other key leaves the text as it is.
TextInput(value, key, text) ==
    IF key \in Runes \/ (key = "backspace" /\ value # <<>>) THEN text ELSE value

\* list.Update outside the list's own filter: esc is the list's Quit binding.
ListUpdate(mm, key, setting) ==
    IF key = "esc" /\ ~setting THEN Result(mm, Quit) ELSE Result(mm, NoCmd)

Nil == [kind |-> "nil", value |-> <<>>]

\* What SelectedItem can return for a list of the given items.
ListItems(list) ==
    CASE list = "branches" -> {[kind |-> "branch", value |-> <<"m">>]}
      [] list = "limits" -> {[kind |-> "limit", value |-> <<"5", "0">>],
                             [kind |-> "limit", value |-> <<"-", "1">>]}
      [] list = "commits" -> {[kind |-> "commit", value |-> <<"a">>]}
      [] OTHER -> {Nil}

loadCommitsFor(mm) ==
    IF mm.selectedBranch # <<>> THEN Cmd(mm, "loadCommitsOnBranchCmd") ELSE Cmd(mm, "loadCommitsCmd")

loadToCommitsFor(mm) ==
    IF mm.selectedBranch # <<>> THEN Cmd(mm, "loadToCommitsOnBranchCmd")
    ELSE Cmd(mm, "loadToCommitsCmd")

handleKeyBranchSelection(mm, key, item, setting, checkout) ==
    IF key = "enter" /\ ~setting /\ item # Nil
    THEN (IF item.kind # "branch" THEN Result(mm, Panic)
          ELSE LET nm == [mm EXCEPT !.selectedBranch = item.value,
                                    !.state = stateCommitLimitSelection]
               IN  Result(nm, Cmd(nm, "loadLimitOptionsCmd")))
    ELSE IF key = "c" /\ ~setting /\ item # Nil
    THEN (IF item.kind # "branch" THEN Result(mm, Panic)
          ELSE IF ~checkout THEN Result([mm EXCEPT !.err = TRUE], NoCmd)
          ELSE Result(mm, Cmd(mm, "loadBranchesCmd")))
    ELSE ListUpdate(mm, key, setting)

handleKeyLimitSelection(mm, key, item, setting) ==
    IF key = "enter" /\ ~setting /\ item # Nil
    THEN (IF item.kind # "limit" THEN Result(mm, Panic)
          ELSE IF item.value = <<"-", "1">>
          THEN Result([mm EXCEPT !.state = stateCommitLimitCustom], NoCmd)
          ELSE LET nm == [mm EXCEPT !.state = stateFromCommit]
               IN  Result(nm, loadCommitsFor(nm)))
    ELSE ListUpdate(mm, key, setting)

\* strconv.Atoi of the trimmed text succeeds with a value in 1 .. commitLimitAll.
validateCommitLimit(input) ==
    LET text == TrimSpace(input)
    IN  text # <<>> /\ \A i \in DOMAIN text : text[i] = "1"

\* text is what the limit input holds when the key arrives.
handleKeyLimitCustom(mm, key, text) ==
    CASE key = "enter" ->
            IF text = <<>> THEN Result(mm, NoCmd)
            ELSE IF ~validateCommitLimit(text) THEN Result([mm EXCEPT !.err = TRUE], NoCmd)
            ELSE LET nm == [mm EXCEPT !.err = FALSE, !.state = stateFromCommit]
                 IN  Result(nm, loadCommitsFor(nm))
      [] key = "esc" ->
            Result([mm EXCEPT !.state = stateCommitLimitSelection, !.err = FALSE], NoCmd)
      [] OTHER -> Result(mm, NoCmd)

handleKeyFromCommit(mm, key, item, setting, parent) ==
    IF ~setting /\ key = "i"
    THEN Result([mm EXCEPT !.inclusiveMode = ~mm.inclusiveMode], NoCmd)
    ELSE IF key = "enter" /\ ~setting /\ item # Nil
    THEN (IF item.kind # "commit" THEN Result(mm, Panic)
          ELSE LET nm == [mm EXCEPT !.fromCommit = getFromCommit(mm, item.value, parent),
                                    !.state = stateToCommit]
               IN  Result(nm, loadToCommitsFor(nm)))
    ELSE IF key = "backspace" /\ ~setting
    THEN LET nm == [mm EXCEPT !.state = stateCommitLimitSelection]
         IN  Result(nm, Cmd(nm, "loadLimitOptionsCmd"))
    ELSE ListUpdate(mm, key, setting)

handleKeyToCommit(mm, key, item, setting, parent) ==
    IF ~setting /\ key = "i"
    THEN Result([mm EXCEPT !.inclusiveMode = ~mm.inclusiveMode], NoCmd)
    ELSE LET fm == IF key = "enter" /\ ~setting
                   THEN [mm EXCEPT !.fromCommit = getFromCommit(mm, mm.fromCommit, parent)]
                   ELSE mm
         IN  IF key = "enter" /\ ~setting /\ item # Nil
             THEN (IF item.kind # "commit" THEN Result(fm, Panic)
                   ELSE LET nm == [fm EXCEPT !.toCommit = item.value]
                        IN  Result(nm, Cmd(nm, "loadRangeStatsCmd")))
             ELSE IF key = "backspace" /\ ~setting
             THEN LET nm == [fm EXCEPT !.state = stateFromCommit]
                  IN  Result(nm, loadCommitsFor(nm))
             ELSE ListUpdate(fm, key, setting)

\* "i" runs loadRangeStatsCmd and handles its message within the same Update.
handleKeyCommitRangeSummary(mm, key, parent, stats) ==
    CASE key = "i" ->
            LET im == [mm EXCEPT !.inclusiveMode = ~mm.inclusiveMode]
                nm == [im EXCEPT !.fromCommit = getFromCommit(im, im.fromCommit, parent)]
            IN  IF stats THEN Result([nm EXCEPT !.state = stateCommitRangeSummary], NoCmd)
                ELSE Result([nm EXCEPT !.err = TRUE], NoCmd)
      [] key = "enter" -> Result(mm, Cmd(mm, "loadFilesCmd"))
      [] key \in {"backspace", "n"} ->
            LET nm == [mm EXCEPT !.state = stateToCommit]
            IN  Result(nm, loadToCommitsFor(nm))
      [] key = "esc" -> Result(mm, Quit)
      [] OTHER -> Result(mm, NoCmd)

handleKeyFileFilter(mm, key, text) ==
    CASE key \in {"up", "down"} ->
            IF Len(mm.filteredIdx) = 0 THEN Result(mm, NoCmd)
            ELSE Result([moveCursor(mm, IF key = "up" THEN -1 ELSE 1) EXCEPT !.inputMode = FALSE],
                        NoCmd)
      [] key = "enter" -> Result([mm EXCEPT !.inputMode = FALSE], NoCmd)
      [] key = "esc" ->
            Result(rebuildFilter([mm EXCEPT !.inputMode = FALSE, !.filterInput = <<>>]), NoCmd)
      [] OTHER ->
            Result(rebuildFilter([mm EXCEPT !.filterInput = TextInput(mm.filterInput, key, text)]), NoCmd)

\* The space key: the file under the cursor changes its selection unless it is disabled.
ToggleSelected(mm) ==
    IF Len(mm.filteredIdx) = 0 THEN Result(mm, NoCmd)
    ELSE IF mm.cursor >= Len(mm.filteredIdx) THEN Result(mm, Panic)
    ELSE LET ix == mm.filteredIdx[mm.cursor + 1]
         IN  IF ix >= Len(mm.files) THEN Result(mm, Panic)
             ELSE IF mm.files[ix + 1].disabled THEN Result(mm, NoCmd)
             ELSE Result([mm EXCEPT !.files[ix + 1].selected = ~mm.files[ix + 1].selected],
                         NoCmd)

Visible(mm, i) == \E k \in DOMAIN mm.filteredIdx : mm.filteredIdx[k] = i - 1

\* A select-all that does not look at disabled.
SelectAllDisabled(mm) ==
    [mm EXCEPT !.files = [i \in DOMAIN mm.files |->
        IF Visible(mm, i) THEN [mm.files[i] EXCEPT !.selected = TRUE] ELSE mm.files[i]]]

\* The "a" key: every visible file that is not disabled becomes selected.
SelectAll(mm) ==
    [mm EXCEPT !.files = [i \in DOMAIN mm.files |->
        IF Visible(mm, i) /\ ~mm.files[i].disabled
        THEN [mm.files[i] EXCEPT !.selected = TRUE] ELSE mm.files[i]]]

\* The "n" key: every visible file becomes unselected.
SelectNone(mm) ==
    [mm EXCEPT !.files = [i \in DOMAIN mm.files |->
        IF Visible(mm, i) THEN [mm.files[i] EXCEPT !.selected = FALSE] ELSE mm.files[i]]]

handleKeyFileSelection(mm0, key, text) ==
    LET mm == ensureFilterIdx(mm0)
    IN  IF mm.inputMode THEN handleKeyFileFilter(mm, key, text)
        ELSE CASE key = "/" -> Result([mm EXCEPT !.inputMode = TRUE], NoCmd)
               [] key = "up" -> Result(moveCursor(mm, -1), NoCmd)
               [] key = "down" -> Result(moveCursor(mm, 1), NoCmd)
               [] key = " " -> ToggleSelected(mm)
               [] key = "a" -> Result(SelectAll(mm), NoCmd)
               [] key = "n" -> Result(SelectNone(mm), NoCmd)
               [] key = "backspace" ->
                    LET nm == [clearFilter(mm) EXCEPT !.state = stateCommitRangeSummary]
                    IN  Result(nm, Cmd(nm, "loadToCommitsCmd"))
               [] key = "c" -> Result(clearFilter(mm), NoCmd)
               [] key = "enter" ->
                    Result([clearFilter(mm) EXCEPT !.outputInputFocused = TRUE,
                                                   !.state = stateOutputPath], NoCmd)
               [] key = "esc" -> Result(mm, Quit)
               [] OTHER -> Result(mm, NoCmd)

\* text is what the path input holds when the key arrives.
handleKeyOutputPath(mm, key, text) ==
    IF mm.outputInputFocused
    THEN CASE key = "esc" -> Result([mm EXCEPT !.outputInputFocused = FALSE], NoCmd)
           [] key = "enter" ->
                LET path == IF text = <<>> THEN defaultOutputPath ELSE text
                    nm == [mm EXCEPT !.outputPath = path]
                IN  IF ValidatePath(path) THEN Result([nm EXCEPT !.err = TRUE], NoCmd)
                    ELSE Result([nm EXCEPT !.err = FALSE, !.state = stateConfirm], NoCmd)
           [] OTHER -> Result(mm, NoCmd)
    ELSE CASE key = "esc" -> Result(mm, Quit)
           [] key = "backspace" -> Result([mm EXCEPT !.state = stateFileSelection], NoCmd)
           [] key \in {"enter", " "} -> Result([mm EXCEPT !.outputInputFocused = TRUE], NoCmd)
           [] key \in Runes \ {" "} ->
                Result([mm EXCEPT !.outputInputFocused = TRUE], NoCmd)
           [] OTHER -> Result(mm, NoCmd)

handleKeyConfirm(mm, key) ==
    IF key = "enter"
    THEN LET nm == [mm EXCEPT !.state = stateProgress] IN Result(nm, Cmd(nm, "startExport"))
    ELSE IF key \in {"n", "backspace"}
    THEN Result([mm EXCEPT !.state = stateOutputPath, !.outputInputFocused = TRUE], NoCmd)
    ELSE IF key = "esc" THEN Result(mm, Quit)
    ELSE Result(mm, NoCmd)

handleKeyDone(mm, key) == Result(mm, Quit)

\* A handleKey that gives the keys of stateProgress to the handler of stateConfirm.
ModelHandleKeyInProgress(mm, key, item, setting, a, stats, text) ==
    IF key = "ctrl+c" THEN Result(mm, Quit)
    ELSE CASE mm.state = stateBranchSelection -> handleKeyBranchSelection(mm, key, item, setting, a.checkout)
           [] mm.state = stateCommitLimitSelection -> handleKeyLimitSelection(mm, key, item, setting)
           [] mm.state = stateCommitLimitCustom -> handleKeyLimitCustom(mm, key, text)
           [] mm.state = stateFromCommit -> handleKeyFromCommit(mm, key, item, setting, a.parent)
           [] mm.state = stateToCommit -> handleKeyToCommit(mm, key, item, setting, a.parent)
           [] mm.state = stateCommitRangeSummary ->
                handleKeyCommitRangeSummary(mm, key, a.parent, stats)
           [] mm.state = stateFileSelection -> handleKeyFileSelection(mm, key, text)
           [] mm.state = stateOutputPath -> handleKeyOutputPath(mm, key, text)
           [] mm.state = stateConfirm -> handleKeyConfirm(mm, key)
           [] mm.state = stateDone -> handleKeyDone(mm, key)
           [] mm.state = stateProgress -> handleKeyConfirm(mm, key)
           [] OTHER -> Result(mm, NoCmd)

\* handleKey: ctrl+c quits; every other key goes to the handler of the state, and stateProgress has
\* none.
ModelHandleKey(mm, key, item, setting, a, stats, text) ==
    IF key = "ctrl+c" THEN Result(mm, Quit)
    ELSE CASE mm.state = stateBranchSelection -> handleKeyBranchSelection(mm, key, item, setting, a.checkout)
           [] mm.state = stateCommitLimitSelection -> handleKeyLimitSelection(mm, key, item, setting)
           [] mm.state = stateCommitLimitCustom -> handleKeyLimitCustom(mm, key, text)
           [] mm.state = stateFromCommit -> handleKeyFromCommit(mm, key, item, setting, a.parent)
           [] mm.state = stateToCommit -> handleKeyToCommit(mm, key, item, setting, a.parent)
           [] mm.state = stateCommitRangeSummary ->
                handleKeyCommitRangeSummary(mm, key, a.parent, stats)
           [] mm.state = stateFileSelection -> handleKeyFileSelection(mm, key, text)
           [] mm.state = stateOutputPath -> handleKeyOutputPath(mm, key, text)
           [] mm.state = stateConfirm -> handleKeyConfirm(mm, key)
           [] mm.state = stateDone -> handleKeyDone(mm, key)
           [] OTHER -> Result(mm, NoCmd)

handleListItems(mm, items) == [mm EXCEPT !.list = items]

handleFileItems(mm, files) ==
    [mm EXCEPT !.files = files, !.state = stateFileSelection,
               !.filteredIdx = Identity(Len(files)), !.filteredNil = FALSE, !.cursor = 0]

\* loadFilesCmd: a deleted file is loaded disabled and unselected, every other file selected.
loadFilesCmd(cs) ==
    [i \in DOMAIN cs |->
        [path |-> cs[i].path, status |-> cs[i].status,
         selected |-> cs[i].status # StatusDeleted, disabled |-> cs[i].status = StatusDeleted]]

RECURSIVE ExportSet(_)
\* startExport: the files that are selected and not disabled, in order.
ExportSet(files) ==
    IF files = <<>> THEN <<>>
    ELSE (IF Head(files).selected /\ ~Head(files).disabled
          THEN <<[path |-> Head(files).path, status |-> Head(files).status]>> ELSE <<>>)
         \o ExportSet(Tail(files))

\* The texts of the text input the state shows: what the limit input or the path input holds, and
\* what an edit leaves in the filter input.
Texts(mm) ==
    CASE mm.state = stateCommitLimitCustom -> {<<>>, <<"1">>, <<"a">>}
      [] mm.state = stateFileSelection -> {<<>>, <<"b">>, <<"D">>}
      [] mm.state = stateOutputPath -> {<<>>, <<"/">>, defaultOutputPath}
      [] OTHER -> {<<>>}

\* What SettingFilter can answer: the list's own filter is off wherever no list is shown.
Settings(mm) ==
    IF mm.state \in {stateBranchSelection, stateCommitLimitSelection, stateFromCommit, stateToCommit}
    THEN BOOLEAN ELSE {FALSE}

\* tui.Run: NewModel, and with no error the program starts with the command of Init.
Run ==
    /\ cpc = "tui"
    /\ m' = NewModel(targs)
    /\ IF targs.branchErr
       THEN cpc' = "exit" /\ cmds' = {}
       ELSE cpc' = "Update" /\ cmds' = {ModelInit(m')}
    /\ UNCHANGED <<fvars, evars, xvars, args, config, sizeIn, sizeOut, targs, selectedFiles, transfer>>

\* Update with a tea.KeyMsg.  tea.Quit ends the program, and so does a panic; any other command
\* is in flight until its message arrives, one command at a time.
KeyMsg(keys) ==
    /\ cpc = "Update"
    /\ \E key \in keys, item \in ListItems(m.list), setting \in Settings(m),
          stats \in {~targs.gitErr}, text \in Texts(m) :
          LET r == ModelHandleKey(m, key, item, setting, targs, stats, text)
          IN  /\ m' = r.m
              /\ IF r.cmd \in {Quit, Panic}
                 THEN cpc' = "exit" /\ cmds' = cmds
                 ELSE IF r.cmd = NoCmd
                 THEN cpc' = cpc /\ cmds' = cmds
                 ELSE cmds = {} /\ cpc' = cpc /\ cmds' = {r.cmd}
    /\ UNCHANGED <<fvars, evars, xvars, args, config, sizeIn, sizeOut, targs, selectedFiles, transfer>>

handleKey == KeyMsg(Keys)

\* A user who never presses the key of inclusive mode.
handleKeyExclusive == KeyMsg(Keys \ {"i"})

\* A command's message arrives: Update handles it and the command is no longer in flight.
Deliver(c, mm, more) ==
    /\ cpc = "Update"
    /\ c \in cmds
    /\ m' = mm
    /\ cmds' = (cmds \ {c}) \cup more
    /\ UNCHANGED <<fvars, evars, xvars, cvars, targs>>

loadLimitOptionsCmd ==
    \E c \in cmds :
        /\ c.name = "loadLimitOptionsCmd"
        /\ Deliver(c, handleListItems(m, "limits"), {})
        /\ UNCHANGED <<selectedFiles, transfer>>

\* The commit lists come from the client: an error, no commit, or commits.
CommitItems(c, mm, answer) ==
    /\ Deliver(c, IF answer = "err" THEN [mm EXCEPT !.err = TRUE]
                  ELSE handleListItems(mm, answer), {})
    /\ UNCHANGED <<selectedFiles, transfer>>

Answers == IF targs.gitErr THEN {"err"} ELSE {"none", "commits"}

loadCommitsCmd ==
    \E c \in cmds, answer \in Answers :
        /\ c.name \in {"loadCommitsCmd", "loadCommitsOnBranchCmd"}
        /\ CommitItems(c, m, answer)

loadToCommitsCmd ==
    \E c \in cmds, answer \in Answers :
        /\ c.name \in {"loadToCommitsCmd", "loadToCommitsOnBranchCmd"}
        /\ CommitItems(c, m, answer)

loadRangeStatsCmd ==
    \E c \in cmds, stats \in {~targs.gitErr} :
        /\ c.name = "loadRangeStatsCmd"
        /\ Deliver(c, IF stats THEN [m EXCEPT !.state = stateCommitRangeSummary]
                      ELSE [m EXCEPT !.err = TRUE], {})
        /\ UNCHANGED <<selectedFiles, transfer>>

loadFiles ==
    \E c \in cmds, ok \in {~targs.gitErr} :
        /\ c.name = "loadFilesCmd"
        /\ Deliver(c, IF ok THEN handleFileItems(m, loadFilesCmd(targs.changes))
                      ELSE [m EXCEPT !.err = TRUE], {})
        /\ UNCHANGED <<selectedFiles, transfer>>

\* exportSequential and exportConcurrent start their goroutines: with more
\* than concurrentThreshold files the producer goroutine and numWorkers workers.
exportSequential(n) ==
    [NoTransfer EXCEPT !.mode = "sequential", !.total = n,
                       !.gpc = IF n > 0 THEN "CopyFile" ELSE "close"]

exportConcurrent(n) ==
    [NoTransfer EXCEPT !.mode = "concurrent", !.total = n, !.gpc = "send", !.unsent = n,
                       !.wpc = [w \in 1..numWorkers |-> "select"]]

Transfer(n) == IF n > concurrentThreshold THEN exportConcurrent(n) ELSE exportSequential(n)

\* startExport builds the export set, prepares the output directory and starts the transfer; the
\* model then waits for the first progress message.
startExport ==
    \E c \in cmds, prepared \in BOOLEAN :
        /\ c.name = "startExport"
        /\ selectedFiles' = [started |-> TRUE, files |-> ExportSet(m.files)]
        /\ IF prepared
           THEN /\ transfer' = Transfer(Len(ExportSet(m.files)))
                /\ Deliver(c, [m EXCEPT !.totalFiles = Len(ExportSet(m.files))],
                           {Cmd(m, "waitForProgress")})
           ELSE /\ transfer' = transfer
                /\ Deliver(c, [m EXCEPT !.err = TRUE], {})

TuiCommit == <<"a">>

TuiPaths == <<PathA, PathAB, PathDA>>

\* The answers of GetChangedFiles: up to three files, each added or deleted.
TuiChanges ==
    {<<>>} \cup UNION {[1..n -> {StatusAdded, StatusDeleted}] : n \in 1..3}

ChangesOf(st) == [i \in DOMAIN st |-> [path |-> TuiPaths[i], status |-> st[i]]]

TuiArg(f, t, b, e, g, p, cs) ==
    [from |-> f, to |-> t, branch |-> b, branchErr |-> e, gitErr |-> g, parent |-> p,
     checkout |-> TRUE, changes |-> cs]

\* What tui.Run is given: every list of changes with both revisions pre-filled, and with one
\* list of changes every combination of pre-filled revisions, a detached HEAD, a failing
\* GetCurrentBranch and a failing client.
TuiArgs ==
    {TuiArg(TuiCommit, <<"b">>, <<"m">>, FALSE, FALSE, FALSE, ChangesOf(st)) : st \in TuiChanges}
    \cup
    {TuiArg(f, t, <<"m">>, FALSE, FALSE, p, ChangesOf(<<StatusAdded, StatusDeleted>>)) :
        f \in {<<>>, TuiCommit, TuiCommit \o <<"^">>}, t \in {<<>>, <<"b">>}, p \in BOOLEAN}
    \cup
    {TuiArg(<<>>, <<>>, b, e, g, FALSE, ChangesOf(<<StatusAdded, StatusDeleted>>)) :
        b \in {<<>>, <<"m">>}, e \in BOOLEAN, g \in BOOLEAN}

InitTui ==
    /\ FIdle
    /\ EIdle
    /\ XIdle
    /\ args = NoArgs
    /\ config = NoConfig
    /\ sizeIn = <<>>
    /\ sizeOut = NotParsed
    /\ cpc = "tui"
    /\ targs \in TuiArgs
    /\ m = NoModel
    /\ cmds = {}
    /\ selectedFiles = NotStarted
    /\ transfer = NoTransfer

NextTui ==
    \/ Run
    \/ handleKey
    \/ loadLimitOptionsCmd
    \/ loadCommitsCmd
    \/ loadToCommitsCmd
    \/ loadRangeStatsCmd
    \/ loadFiles
    \/ startExport

SpecTui == InitTui /\ [][NextTui]_vars

InitExclusive ==
    /\ InitTui
    /\ targs.changes = ChangesOf(<<StatusAdded, StatusDeleted>>)

NextExclusive ==
    \/ Run
    \/ handleKeyExclusive
    \/ loadLimitOptionsCmd
    \/ loadCommitsCmd
    \/ loadToCommitsCmd
    \/ loadRangeStatsCmd
    \/ loadFiles
    \/ startExport

\* The TUI with inclusive mode never enabled.
SpecExclusive == InitExclusive /\ [][NextExclusive]_vars

(***************************************************************************)
(* The file selection of the TUI.                                          *)
(***************************************************************************)

Deleted(f) == f.status = StatusDeleted

\* The paths startExport took into the export set.
Exported == {selectedFiles.files[i].path : i \in DOMAIN selectedFiles.files}

\* The paths of the files of the list that are selected and not disabled.
Chosen == {m.files[i].path : i \in {j \in DOMAIN m.files : m.files[j].selected /\ ~m.files[j].disabled}}

\* C28: a deleted file is in the list disabled and unselected, whatever keys were handled and
\* whatever the filter is, no disabled file is selected, and the export set startExport built is
\* exactly the files that are selected and not disabled, with no deleted file in it.
C28_DeletedNeverExported ==
    /\ \A i \in DOMAIN m.files :
          /\ Deleted(m.files[i]) => m.files[i].disabled
          /\ m.files[i].disabled => ~m.files[i].selected
    /\ selectedFiles.started =>
          /\ Exported = Chosen
          /\ Len(selectedFiles.files) = Cardinality(Chosen)
          /\ \A i \in DOMAIN selectedFiles.files : ~Deleted(selectedFiles.files[i])

\* An export set built from a list with a deleted file and a file the user has unselected.
C28_Witness ==
    /\ selectedFiles.started
    /\ selectedFiles.files # <<>>
    /\ \E i \in DOMAIN m.files : Deleted(m.files[i])
    /\ \E i \in DOMAIN m.files : ~Deleted(m.files[i]) /\ ~m.files[i].selected

\* Select-all was pressed under a filter that shows a deleted file: the files the filter shows are
\* all selected but the deleted one.
C28_SelectAllUnderFilter ==
    /\ m.state = stateFileSelection
    /\ m.filterInput # <<>>
    /\ \E k \in DOMAIN m.filteredIdx : Deleted(m.files[m.filteredIdx[k] + 1])
    /\ \E k \in DOMAIN m.filteredIdx : m.files[m.filteredIdx[k] + 1].selected
    /\ \E i \in DOMAIN m.files : ~Deleted(m.files[i]) /\ ~m.files[i].selected

\* C29: the state NewModel gives follows from the pre-filled revisions: stateBranchSelection with
\* neither, stateToCommit with only from, stateCommitRangeSummary with both.
C29_InitialState ==
    [][(cpc = "tui" /\ cpc' = "Update") =>
          /\ (targs.from = <<>> /\ targs.to = <<>>) => m'.state = stateBranchSelection
          /\ (targs.from # <<>> /\ targs.to = <<>>) => m'.state = stateToCommit
          /\ (targs.from # <<>> /\ targs.to # <<>>) => m'.state = stateCommitRangeSummary]_vars

\* What NewModel does with neither revision: the model starts in stateCommitLimitSelection.
C29_NeitherRevision ==
    /\ cpc = "Update"
    /\ targs.from = <<>>
    /\ targs.to = <<>>
    /\ m.state = stateCommitLimitSelection
    /\ m.list = "none"

\* The other two cases of C29 as NewModel has them.
C29_WithFrom ==
    [][(cpc = "tui" /\ cpc' = "Update") =>
          /\ (targs.from # <<>> /\ targs.to = <<>>) => m'.state = stateToCommit
          /\ (targs.from # <<>> /\ targs.to # <<>>) => m'.state = stateCommitRangeSummary
          /\ targs.from = <<>> => m'.state = stateCommitLimitSelection]_vars

\* The cursor after a key of the file list, for the Model as it is.
CursorAfter(key) == handleKeyFileSelection(m, key, <<>>).m.cursor

Browsing ==
    /\ cpc = "Update"
    /\ m.state = stateFileSelection
    /\ ~m.inputMode
    /\ m.filteredIdx # <<>>

\* C30: in the file list, down on the last visible item and up on the first leave the cursor
\* where it is; otherwise down and up move it by exactly one.
C30_CursorStaysAtEnds ==
    Browsing =>
        /\ CursorAfter("down") = IF m.cursor = Len(m.filteredIdx) - 1 THEN m.cursor ELSE m.cursor + 1
        /\ CursorAfter("up") = IF m.cursor = 0 THEN m.cursor ELSE m.cursor - 1

\* What moveCursor does: the cursor moves by one modulo the number of visible items.
C30_CursorWraps ==
    Browsing =>
        /\ CursorAfter("down") = (m.cursor + 1) % Len(m.filteredIdx)
        /\ CursorAfter("up") = (m.cursor + Len(m.filteredIdx) - 1) % Len(m.filteredIdx)

\* The cursor on the last of three visible items: down takes it to the first.
C30_WrapAtEnd ==
    /\ Browsing
    /\ Len(m.filteredIdx) = 3
    /\ m.cursor = 2
    /\ CursorAfter("down") = 0

\* C37: in stateFileSelection every element of filteredIdx is an index into files, the cursor is
\* 0 when filteredIdx is empty and otherwise an index into filteredIdx, and the toggle does not
\* index out of range.
C37_CursorInRange ==
    (cpc = "Update" /\ m.state = stateFileSelection) =>
        /\ \A k \in DOMAIN m.filteredIdx : 0 <= m.filteredIdx[k] /\ m.filteredIdx[k] < Len(m.files)
        /\ IF m.filteredIdx = <<>> THEN m.cursor = 0
           ELSE 0 <= m.cursor /\ m.cursor < Len(m.filteredIdx)
        /\ handleKeyFileSelection(m, " ", <<>>).cmd # Panic

\* A filter that hides a file of a list of three, with the cursor on the last item it shows.
C37_Witness ==
    /\ cpc = "Update"
    /\ m.state = stateFileSelection
    /\ m.filterInput # <<>>
    /\ Len(m.files) = 3
    /\ Len(m.filteredIdx) = 2
    /\ m.cursor = 1

\* A filter that shows no file of a list that has files.
C37_NothingShown ==
    /\ cpc = "Update"
    /\ m.state = stateFileSelection
    /\ m.files # <<>>
    /\ m.filteredIdx = <<>>
    /\ m.cursor = 0

\* C38: in stateProgress every key other than ctrl+c leaves the Model as it is and returns no
\* command.
C38_KeysIgnoredInProgress ==
    (cpc = "Update" /\ m.state = stateProgress) =>
        \A key \in Keys \ {"ctrl+c"}, item \in ListItems(m.list), setting \in BOOLEAN,
           stats \in BOOLEAN, text \in {<<>>, <<"/">>} :
            ModelHandleKey(m, key, item, setting, targs, stats, text) = Result(m, NoCmd)

\* An export in progress: startExport has built a non-empty export set.
C38_Witness ==
    /\ cpc = "Update"
    /\ m.state = stateProgress
    /\ selectedFiles.started
    /\ selectedFiles.files # <<>>

(***************************************************************************)
(* The from-revision of the TUI.                                           *)
(***************************************************************************)

\* A step of the running program changes the from-revision only by the selection of a from-commit,
\* to the commit selected, and a command that loads the files or exports is bound to it.
C39_Step ==
    cpc = "Update" =>
        /\ m'.fromCommit # m.fromCommit =>
              /\ m.state = stateFromCommit
              /\ m'.state = stateToCommit
              /\ \E item \in ListItems(m.list) : m'.fromCommit = item.value
        /\ \A c \in cmds' \ cmds :
              c.name \in {"loadFilesCmd", "startExport"} => c.fromCommit = m.fromCommit

\* The from-revision after the key of inclusive mode was pressed twice in the summary.
ToggledTwice ==
    LET once == handleKeyCommitRangeSummary(m, "i", targs.parent, TRUE).m
    IN  handleKeyCommitRangeSummary(once, "i", targs.parent, TRUE).m.fromCommit

C39_State == (cpc = "Update" /\ m.state = stateCommitRangeSummary) => ToggledTwice = m.fromCommit

\* C39: with inclusive mode never enabled the from-revision is the one the user supplied or
\* selected, also in the commands that load the files and export; and in the commit range
\* summary two toggles of inclusive mode restore the from-revision.
C39_FromRevision == []C39_State /\ [][C39_Step]_vars

\* A from-revision given as "a^": after the to-commit was chosen the model holds "a".
C39_Stripped ==
    /\ cpc = "Update"
    /\ targs.from = TuiCommit \o <<"^">>
    /\ ~m.inclusiveMode
    /\ m.fromCommit = TuiCommit
    /\ m.state = stateFileSelection

\* What holds of the two toggles: they restore a from-revision that agrees with the mode, one
\* without "^" while the mode is off, and with the mode on one with "^" or one with no parent.
C39_ToggleRestores ==
    (/\ cpc = "Update"
     /\ m.state = stateCommitRangeSummary
     /\ HasSuffix(m.fromCommit, <<"^">>) = (m.inclusiveMode /\ targs.parent)) =>
        ToggledTwice = m.fromCommit

\* What holds of the steps: without "^" in the from-revision given, and inclusive mode never
\* enabled, the from-revision changes only by selection.
C39_PlainRevision == [][~HasSuffix(targs.from, <<"^">>) => C39_Step]_vars

(***************************************************************************)
(* C35: what the run returns                                               *)
(***************************************************************************)
\* The places a run may return an error from: sink preparation (the output
\* directory, the archive file) and the writing of summary.txt / errors.txt.
SinkOrReportStep ==
    pc \in {"prepare", "archiveCreate", "summary", "errorsTxt", "archiveErrors"}
        \/ (pc = "archiveLoop" /\ idx >= nfiles)

\* C35: ExportFiles returns a non-nil error only from sink preparation or from
\* the writing of summary.txt / errors.txt; a failure of one file of the
\* export set is never the returned error, however many files failed.
C35_FileFailureNeverReturned ==
    [][(Running /\ ret' # "none" /\ ret' # "nil") => SinkOrReportStep]_vars

\* The directory sink alone: every file may fail and the run still returns nil
\* unless preparation or a report write failed.
C35_DirectorySink ==
    [][(Running /\ opts.ArchivePath = <<>> /\ ret' # "none" /\ ret' # "nil")
            => SinkOrReportStep]_vars

\* A directory run in which every file failed has returned nil.
C35_AllFailedNil ==
    /\ pc = "returned" /\ ret = "nil"
    /\ ~opts.Preview /\ opts.ArchivePath = <<>>
    /\ nfiles >= 2 /\ failedCount = nfiles /\ successCount = 0
    /\ ErrorCount = nfiles

(***************************************************************************)
(* C36: the exported files and the report files in one sink                *)
(***************************************************************************)
\* A repository in which the file summary.txt changed, alone or together
\* with PathA.
SinkPaths == {PathA, PathSummary}

SinkChangeLists ==
    {<<FileChange(StatusAdded, PathSummary)>>,
     <<FileChange(StatusAdded, PathA), FileChange(StatusModified, PathSummary)>>,
     <<FileChange(StatusModified, PathSummary), FileChange(StatusAdded, PathA)>>}

SinkRepos ==
    {[IsGitRepository |-> TRUE, HasCommits |-> TRUE, FromCommit |-> TRUE, ToCommit |-> TRUE,
      GetChangedFiles |-> [err |-> FALSE, changes |-> cs]] : cs \in SinkChangeLists}

InitSink == ExportInit(SinkRepos, SinkPaths)

SpecSink == InitSink /\ [][NextExport]_vars

\* The entries of the archive with this name.
EntriesNamed(name) == {k \in 1..Len(archive.entries) : archive.entries[k] = name}

\* File f of the export set is in the sink once, with the content the provider
\* returned for it.  An archive entry holds what was written when it was
\* added: the entry at position k <= successCount is an exported file.
HeldOnce(f) ==
    IF opts.ArchivePath = <<>>
        THEN /\ Name(f) \in root.entries
             /\ root.content[Name(f)] = FileContent(f)
        ELSE /\ Cardinality(EntriesNamed(Name(f))) = 1
             /\ \A k \in EntriesNamed(Name(f)) : k <= successCount

\* C36: after an export with no recorded failure the sink holds, for every
\* file of the export set, exactly one entry at its path with the content
\* the provider returned; summary.txt and errors.txt never replace or
\* duplicate an exported file.
C36_ExportedFilesIntact ==
    (pc = "returned" /\ ret = "nil" /\ ~opts.Preview /\ ~HasErrors /\ failures = {}) =>
        \A f \in 1..Len(result) : HeldOnce(f)

\* The directory holds the manifest where the exported summary.txt should be.
C36_Replaced ==
    /\ pc = "returned" /\ ret = "nil" /\ ~HasErrors
    /\ opts.ArchivePath = <<>> /\ ~opts.Preview
    /\ \E f \in 1..Len(result) :
        /\ result[f].Path = PathSummary
        /\ root.content["summary.txt"] = ManifestContent

\* The archive has two entries named summary.txt.
C36_Duplicated ==
    /\ pc = "returned" /\ ret = "nil" /\ ~HasErrors
    /\ opts.ArchivePath # <<>> /\ ~opts.Preview
    /\ Cardinality(EntriesNamed("summary.txt")) = 2

\* With no path of the export set named like a report file, the statement
\* holds.
C36_OtherPaths ==
    (pc = "returned" /\ ret = "nil" /\ ~opts.Preview /\ ~HasErrors /\ failures = {}) =>
        \A f \in 1..Len(result) : result[f].Path # PathSummary => HeldOnce(f)

(***************************************************************************)
(* C34: copyConcurrent returns, and what it leaves behind                  *)
(***************************************************************************)
\* What is the same in every state the pool is started from: an export set
\* of n added files whose contents cannot be read, the directory prepared.
PoolRun(n) ==
    /\ UIdle
    /\ XIdle
    /\ nfiles = n
    /\ changes = PoolResult(n)
    /\ fopts = [IncludePatterns |-> <<>>, IgnorePatterns |-> <<>>, MaxSize |-> 0]
    /\ provider = [p \in {PoolPath(f) : f \in 1..n} |-> NoAnswer]
    /\ fi = n
    /\ result = changes
    /\ jsonFiles = <<>>
    /\ calls = <<>>
    /\ previous = <<>>
    /\ opts = [Preview |-> FALSE, ArchivePath |-> <<>>, Concurrent |-> TRUE, Overwrite |-> FALSE]
    /\ root0 = Dir("absent", {})
    /\ root = Dir("dir", {})
    /\ prep = "ok"
    /\ pc = "wg.Wait"
    /\ ret = "none"
    /\ idx = 0
    /\ successCount = 0
    /\ archive = [created |-> FALSE, format |-> "none", entries |-> <<>>]
    /\ inWriter = {}
    /\ notified = TRUE
    /\ signalCh = 0
    /\ errorsTxt = NotWritten

\* Nothing was sent yet, and `gone` workers have returned on a signal each.
Signalled(gone) ==
    /\ PoolRun(bufferSize + 2)
    /\ failedCount = 0
    /\ errors = <<>>
    /\ failures = {}
    /\ copies = [f \in 1..nfiles |-> 0]
    /\ progress = 1
    /\ fileCh = <<>>
    /\ closed = FALSE
    /\ sent = 0
    /\ wfile = [w \in Workers |-> 0]
    /\ wpc = [w \in Workers |-> IF w > gone THEN "select" ELSE "exit"]
    /\ signals = gone
    /\ observed = gone

\* No signal so far: the producer goroutine has sent the numWorkers + 1 files
\* and closed the queue, all but the last file failed, the first worker
\* copies the last file and the others have returned.
LastFile ==
    /\ PoolRun(numWorkers + 1)
    /\ failedCount = numWorkers
    /\ errors = [k \in 1..numWorkers |-> k]
    /\ failures = 1..numWorkers
    /\ copies = [f \in 1..nfiles |-> 1]
    /\ progress = 1 + numWorkers
    /\ fileCh = <<>>
    /\ closed = TRUE
    /\ sent = nfiles
    /\ wfile = [w \in Workers |-> IF w = 1 THEN nfiles ELSE 0]
    /\ wpc = [w \in Workers |-> IF w = 1 THEN "CopyFile" ELSE "exit"]
    /\ signals = 0
    /\ observed = 0

\* States of a run of copyConcurrent: all workers but one, or all workers,
\* have returned on signals before the first file was sent; or the last
\* file is being copied.
InitSignalled ==
    \/ \E gone \in {numWorkers - 1, numWorkers} : Signalled(gone)
    \/ LastFile

\* The pool with signals: the steps of copyConcurrent and of its goroutines.
NextSignalled ==
    \/ ProducerSend
    \/ ProducerClose
    \/ \E w \in Workers : WorkerReceive(w)
    \/ \E w \in Workers : WorkerClosed(w)
    \/ \E w \in Workers : WorkerCopy(w)
    \/ wgWait
    \/ Signal
    \/ \E w \in Workers : WorkerSignal(w)

\* The Go scheduler runs a goroutine that can take a step: no goroutine that
\* is able to proceed waits forever.
SpecSignalled == InitSignalled /\ [][NextSignalled]_vars /\ WF_vars(NextSignalled)

\* copyConcurrent has returned to runExport.
CopyConcurrentReturned == pc = "summary"

\* The producer goroutine has left its loop and closed the queue.
ProducerExited == closed /\ sent = nfiles

\* The producer goroutine is blocked in `fileCh <- f`.
ProducerBlocked == ~closed /\ sent < nfiles /\ Len(fileCh) = bufferSize

\* C34, first half: with no signal copyConcurrent returns, and when it has
\* returned every file was processed and the producer goroutine has closed
\* the queue and exited.
C34_NoSignalReturns ==
    /\ [](signals = 0) => <>CopyConcurrentReturned
    /\ []((CopyConcurrentReturned /\ observed = 0) =>
            (ProducerExited /\ successCount + failedCount = nfiles))

\* C34: copyConcurrent returns in every execution, and after it has returned
\* no goroutine it started stays blocked: the producer goroutine gets to
\* close the queue and exit.
C34_NothingLeftBehind ==
    /\ <>(CopyConcurrentReturned \/ pc = "killed")
    /\ CopyConcurrentReturned ~> ProducerExited

\* copyConcurrent has returned and the producer goroutine waits on a full
\* queue that no worker will read.
C34_ProducerStuck ==
    /\ CopyConcurrentReturned
    /\ ProducerBlocked
    /\ \A w \in Workers : wpc[w] = "exit"

(***************************************************************************)
(* The export of the TUI: exportSequential, exportConcurrent,              *)
(* waitForProgress and handleProgress.  progressCh is unbuffered: a        *)
(* goroutine sends its message in the step in which the waitForProgress    *)
(* command in flight receives it, and Update handles the message.  No      *)
(* signal is delivered.                                                    *)
(***************************************************************************)
\* handleProgress: the counts of the message are shown; with all files
\* counted the model is done and waits for no further message.
handleProgressNoRearm(mm, msg) ==
    LET currentProcessed == msg.failedCount + msg.successCount
        nm == [mm EXCEPT !.successCount = msg.successCount, !.failedCount = msg.failedCount]
    IN  IF nm.totalFiles > 0 /\ currentProcessed >= nm.totalFiles
        THEN Result([nm EXCEPT !.state = stateDone], NoCmd)
        ELSE Result(nm, NoCmd)

handleProgress(mm, msg) ==
    LET currentProcessed == msg.failedCount + msg.successCount
        nm == [mm EXCEPT !.successCount = msg.successCount, !.failedCount = msg.failedCount]
    IN  IF nm.totalFiles > 0 /\ currentProcessed >= nm.totalFiles
        THEN Result([nm EXCEPT !.state = stateDone], NoCmd)
        ELSE Result(nm, Cmd(nm, "waitForProgress"))

\* msg, ok := <-ch with ok true, and Update with the progressMsg.
Receive(msg) ==
    \E c \in cmds :
        /\ c.name = "waitForProgress"
        /\ ~transfer.progressClosed
        /\ LET r == handleProgress(m, msg)
           IN  Deliver(c, r.m, IF r.cmd = NoCmd THEN {} ELSE {r.cmd})
        /\ UNCHANGED selectedFiles

\* The worker's counters after CopyFile returned.
Counted(t, failed) ==
    IF failed THEN [t EXCEPT !.failedCount = @ + 1] ELSE [t EXCEPT !.successCount = @ + 1]

\* exportSequential: CopyFile and the counts, for the next file.
sequentialCopy ==
    /\ cpc = "Update"
    /\ transfer.mode = "sequential"
    /\ transfer.gpc = "CopyFile"
    /\ \E failed \in BOOLEAN :
        transfer' = [Counted(transfer, failed) EXCEPT !.gpc = "send"]
    /\ UNCHANGED <<fvars, evars, xvars, cvars, targs, m, cmds, selectedFiles>>

\* progressCh <- progressMsg{...} of the sequential loop.
sequentialSend ==
    /\ transfer.mode = "sequential"
    /\ transfer.gpc = "send"
    /\ Receive(progressMsg(transfer.successCount, transfer.failedCount))
    /\ transfer' = [transfer EXCEPT !.done = @ + 1,
                                    !.gpc = IF transfer.done + 1 < transfer.total
                                            THEN "CopyFile" ELSE "close"]

\* close(progressCh), by the sequential goroutine after its loop and by the
\* producer goroutine after wg.Wait.
closeProgress ==
    /\ cpc = "Update"
    /\ transfer.gpc = "close"
    /\ transfer' = [transfer EXCEPT !.progressClosed = TRUE, !.gpc = "errors"]
    /\ UNCHANGED <<fvars, evars, xvars, cvars, targs, m, cmds, selectedFiles>>

\* if exp.HasErrors() { errors.txt }, and the goroutine returns.
exportErrors ==
    /\ cpc = "Update"
    /\ transfer.gpc = "errors"
    /\ transfer' = [transfer EXCEPT !.errorsTxt = transfer.failedCount > 0, !.gpc = "exit"]
    /\ UNCHANGED <<fvars, evars, xvars, cvars, targs, m, cmds, selectedFiles>>

\* msg, ok := <-ch with ok false: exportDoneMsg, and Update is done.
exportDone ==
    \E c \in cmds :
        /\ c.name = "waitForProgress"
        /\ transfer.progressClosed
        /\ Deliver(c, [m EXCEPT !.state = stateDone], {})
        /\ UNCHANGED <<selectedFiles, transfer>>

\* The producer goroutine: fileCh <- f, blocking while the buffer is full.
producerSend ==
    /\ cpc = "Update"
    /\ transfer.mode = "concurrent"
    /\ transfer.gpc = "send"
    /\ transfer.unsent > 0
    /\ transfer.queued < bufferSize
    /\ transfer' = [transfer EXCEPT !.unsent = @ - 1, !.queued = @ + 1]
    /\ UNCHANGED <<fvars, evars, xvars, cvars, targs, m, cmds, selectedFiles>>

\* close(fileCh); the producer then waits in wg.Wait.
producerClose ==
    /\ cpc = "Update"
    /\ transfer.mode = "concurrent"
    /\ transfer.gpc = "send"
    /\ transfer.unsent = 0
    /\ transfer' = [transfer EXCEPT !.fileClosed = TRUE, !.gpc = "wg.Wait"]
    /\ UNCHANGED <<fvars, evars, xvars, cvars, targs, m, cmds, selectedFiles>>

\* wg.Wait returns when every worker has returned.
producerWait ==
    /\ cpc = "Update"
    /\ transfer.gpc = "wg.Wait"
    /\ \A w \in Workers : transfer.wpc[w] = "exit"
    /\ transfer' = [transfer EXCEPT !.gpc = "close"]
    /\ UNCHANGED <<fvars, evars, xvars, cvars, targs, m, cmds, selectedFiles>>

\* case f, ok := <-fileCh with ok true
workerReceive(w) ==
    /\ cpc = "Update"
    /\ transfer.wpc[w] = "select"
    /\ transfer.queued > 0
    /\ transfer' = [transfer EXCEPT !.queued = @ - 1, !.wpc[w] = "CopyFile"]
    /\ UNCHANGED <<fvars, evars, xvars, cvars, targs, m, cmds, selectedFiles>>

\* case f, ok := <-fileCh with ok false
workerClosed(w) ==
    /\ cpc = "Update"
    /\ transfer.wpc[w] = "select"
    /\ transfer.queued = 0
    /\ transfer.fileClosed
    /\ transfer' = [transfer EXCEPT !.wpc[w] = "exit"]
    /\ UNCHANGED <<fvars, evars, xvars, cvars, targs, m, cmds, selectedFiles>>

\* exp.CopyFile(f), then failedCount.Add(1) or successCount.Add(1)
workerCopy(w) ==
    /\ cpc = "Update"
    /\ transfer.wpc[w] = "CopyFile"
    /\ \E failed \in BOOLEAN :
        transfer' = [Counted(transfer, failed) EXCEPT !.wpc[w] = "successCount.Load"]
    /\ UNCHANGED <<fvars, evars, xvars, cvars, targs, m, cmds, selectedFiles>>

\* successCount: int(successCount.Load())
workerLoadSuccess(w) ==
    /\ cpc = "Update"
    /\ transfer.wpc[w] = "successCount.Load"
    /\ transfer' = [transfer EXCEPT !.wmsg[w].successCount = transfer.successCount,
                                    !.wpc[w] = "failedCount.Load"]
    /\ UNCHANGED <<fvars, evars, xvars, cvars, targs, m, cmds, selectedFiles>>

\* failedCount: int(failedCount.Load())
workerLoadFailed(w) ==
    /\ cpc = "Update"
    /\ transfer.wpc[w] = "failedCount.Load"
    /\ transfer' = [transfer EXCEPT !.wmsg[w].failedCount = transfer.failedCount,
                                    !.wpc[w] = "send"]
    /\ UNCHANGED <<fvars, evars, xvars, cvars, targs, m, cmds, selectedFiles>>

\* progressCh <- progressMsg{...} of a worker, which is then back at its select.
workerSend(w) ==
    /\ transfer.wpc[w] = "send"
    /\ Receive(transfer.wmsg[w])
    /\ transfer' = [transfer EXCEPT !.wpc[w] = "select"]

(***************************************************************************)
(* The TUI from the confirmation of the export on                          *)
(***************************************************************************)
MaxSelected == 2

\* The workers that copy a file each when the run is taken up: all but two.
Busy == numWorkers - 2

\* n added files, and a deleted one.
ProgressChanges(n) ==
    [i \in 1..(n + 1) |->
        [path |-> <<"p", ToString(i)>>,
         status |-> IF i <= n THEN StatusAdded ELSE StatusDeleted]]

ProgressArg(n) == TuiArg(TuiCommit, <<"b">>, <<"m">>, FALSE, FALSE, FALSE, ProgressChanges(n))

\* The Model after the files were loaded and the user has pressed enter in
\* the file selection, entered the default output path and confirmed.
Confirmed(a) ==
    LET Key(mm, key, text) == ModelHandleKey(mm, key, Nil, FALSE, a, TRUE, text).m
        loaded == handleFileItems(NewModel(a), loadFilesCmd(a.changes))
    IN  Key(Key(Key(loaded, "enter", <<>>), "enter", defaultOutputPath), "enter", <<>>)

\* The same Model for a list of changes too long to be walked through by
\* the handlers: the files as loadFilesCmd loads them, none filtered out.
ConfirmedAll(a) ==
    [Confirmed(ProgressArg(0)) EXCEPT
        !.files = loadFilesCmd(a.changes),
        !.filteredIdx = [i \in 1..Len(a.changes) |-> i - 1]]

\* The Model and the export set after `shown` files of n were exported and
\* their progress messages handled, a waitForProgress in flight.
Exporting(n, shown) ==
    /\ targs = ProgressArg(n)
    /\ m = [ConfirmedAll(targs) EXCEPT !.totalFiles = n, !.successCount = shown]
    /\ cmds = {Cmd(m, "waitForProgress")}
    /\ selectedFiles = [started |-> TRUE,
                        files |-> [i \in 1..n |-> [path |-> targs.changes[i].path,
                                                   status |-> targs.changes[i].status]]]

\* The user has just confirmed the export of up to MaxSelected files; or a
\* concurrent export of concurrentThreshold + 1 files is near its end: the
\* last Busy files are being copied by a worker each, the queue is closed
\* and the other workers have returned; or the last file is still to be
\* sent by the producer goroutine.
InitProgress ==
    /\ FIdle
    /\ EIdle
    /\ XIdle
    /\ args = NoArgs
    /\ config = NoConfig
    /\ sizeIn = <<>>
    /\ sizeOut = NotParsed
    /\ cpc = "Update"
    /\ \/ \E n \in 0..MaxSelected :
            /\ targs = ProgressArg(n)
            /\ m = Confirmed(targs)
            /\ cmds = {Cmd(m, "startExport")}
            /\ selectedFiles = NotStarted
            /\ transfer = NoTransfer
       \/ LET n == concurrentThreshold + 1
          IN  /\ Exporting(n, n - Busy)
              /\ transfer = [exportConcurrent(n) EXCEPT
                                !.unsent = 0, !.fileClosed = TRUE, !.gpc = "wg.Wait",
                                !.successCount = n - Busy,
                                !.wpc = [w \in Workers |-> IF w <= Busy THEN "CopyFile" ELSE "exit"]]
       \/ LET n == concurrentThreshold + 1
          IN  /\ Exporting(n, n - 1)
              /\ transfer = [exportConcurrent(n) EXCEPT !.unsent = 1, !.successCount = n - 1]

NextProgress ==
    \/ startExport
    \/ sequentialCopy
    \/ sequentialSend
    \/ closeProgress
    \/ exportErrors
    \/ exportDone
    \/ producerSend
    \/ producerClose
    \/ producerWait
    \/ \E w \in Workers : workerReceive(w)
    \/ \E w \in Workers : workerClosed(w)
    \/ \E w \in Workers : workerCopy(w)
    \/ \E w \in Workers : workerLoadSuccess(w)
    \/ \E w \in Workers : workerLoadFailed(w)
    \/ \E w \in Workers : workerSend(w)

SpecProgress == InitProgress /\ [][NextProgress]_vars

\* The Go scheduler runs a goroutine that can take a step, and the Bubble
\* Tea runtime runs the command Update returned and hands its message to Update.
SpecProgressFair == SpecProgress /\ WF_vars(NextProgress)

\* The export was started: the output directory was prepared.
ExportStarted == transfer.mode # "none"

\* C31: once the export was started, the model eventually reaches stateDone,
\* with no file, in the sequential and in the concurrent mode.
C31_EventuallyDone == ExportStarted ~> (m.state = stateDone)

C31_Witness ==
    /\ m.state = stateDone
    /\ transfer.mode = "concurrent"
    /\ m.successCount + m.failedCount = m.totalFiles

C31_NoFile ==
    /\ m.state = stateDone
    /\ transfer.mode = "sequential"
    /\ m.totalFiles = 0

\* Every goroutine of the export has returned, progressCh is closed and
\* errors.txt was written if a file failed.
Finished ==
    /\ \A w \in Workers : transfer.wpc[w] \in {"none", "exit"}
    /\ transfer.gpc = "exit"
    /\ transfer.progressClosed
    /\ transfer.failedCount > 0 => transfer.errorsTxt

\* C32: in a concurrent export every worker eventually returns, progressCh
\* is eventually closed and errors.txt is eventually written if a file
\* failed, also after the model is done.
C32_GoroutinesReturn == (transfer.mode = "concurrent") ~> Finished

\* The model is done and waits for no message; a worker is blocked in its
\* send, and a file has failed.
C32_WorkerBlocked ==
    /\ m.state = stateDone
    /\ cmds = {}
    /\ \E w \in Workers : transfer.wpc[w] = "send"
    /\ transfer.failedCount > 0
    /\ ~transfer.errorsTxt

\* In the sequential mode the goroutine does finish.
C32_SequentialFinishes == (transfer.mode = "sequential") ~> Finished

\* The counts the model shows do not decrease in this step.
C33_Step ==
    /\ m'.successCount >= m.successCount
    /\ m'.failedCount >= m.failedCount

\* The model is done only when every file was processed.
C33_DoneMeansProcessed ==
    (ExportStarted /\ m.state = stateDone) =>
        transfer.successCount + transfer.failedCount = transfer.total

\* C33: the counts the model shows never go backwards, and the model is done
\* only when every selected file was processed.
C33_CountsMonotone == []C33_DoneMeansProcessed /\ [][C33_Step]_vars

\* The same in the sequential mode.
C33_SequentialMonotone == [][transfer.mode = "sequential" => C33_Step]_vars

\* The model waits for the next message, and a worker is about to send one
\* whose success count is below the count the model shows.
C33_StaleMessage ==
    /\ m.state = stateProgress
    /\ transfer.mode = "concurrent"
    /\ cmds # {}
    /\ \E w \in Workers :
        /\ transfer.wpc[w] = "send"
        /\ transfer.wmsg[w].successCount < m.successCount

====
